---- MODULE Spec2Model ----
(***************************************************************************)
(* Triage protocol engine of CareCircle (backend/shared/triage_protocol.py)*)
(* as a state machine: one triage session (protocol type, current step,   *)
(* response map) driven by record_response, get_next_step and             *)
(* proceed_to_next_step, with the condition evaluator modelled on the     *)
(* condition strings of the templates, character by character; and the   *)
(* task-assignment scorer (backend/functions/task-assignment/app.py):     *)
(* four sub-scores per family member, their weighted composite, and the   *)
(* descending sort of the scored members, and the handler that assigns    *)
(* the task; the outcome capture service (backend/shared/                 *)
(* outcome_capture.py); and several triage sessions side by side.         *)
(***************************************************************************)
EXTENDS Integers, Sequences, FiniteSets, TLC

VARIABLES
  protocol_type,        \* self.protocol_type: "fall", "injury", "chest_pain", "confusion"
  current_step_number,  \* self.current_step_number
  responses,            \* self.responses: question id -> recorded value
  op,                   \* the method called last
  next_step,            \* what the last get_next_step() call returned (NoResult if none since the last mutation)
  returned,             \* what the last proceed_to_next_step() call returned
  condition,            \* evaluator harness: the condition string evaluated last
  evaluated,            \* evaluator harness: outcome of that evaluation
  task,                 \* scorer: the task dict (required_skills, urgency, elder_zipcode)
  members,              \* scorer: the family members, in the order the query returned them
  zip_hash,             \* scorer: hash() of this process on the zip code strings it is given
  active_tasks,         \* scorer: per member id, the outcome of the active-task query
  scored_members,       \* scorer: what the last multi_agent_scoring() call returned
  capture_request,      \* outcome capture: the arguments of the last call
  captured,             \* outcome capture: what capture_outcome() returned
  follow_up_tasks,      \* outcome capture: what generate_follow_up_tasks() returned
  sessions,             \* several sessions: alert id -> the fields of its state machine
  alone,                \* several sessions: alert id -> the same session run on its own
  operated,             \* several sessions: the alert id of the session called last
  event,                \* handler: the detail of the alert event
  existing_alerts,      \* handler: the alerts of the family stored before the event
  llm_reply,            \* handler: what the Bedrock call will do
  writes,               \* handler: the items put into the table, in order
  handler_response      \* handler: what lambda_handler() returned

\* the state of the scorer
scorer_vars == << task, members, zip_hash, active_tasks, scored_members >>

\* the state of the outcome capture service, of the sessions side by side,
\* and of the task-assignment handler
outcome_vars == << capture_request, captured, follow_up_tasks >>

sessions_vars == << sessions, alone, operated >>

handler_vars == << event, existing_alerts, llm_reply, writes, handler_response >>

vars == << protocol_type, current_step_number, responses, op, next_step, returned,
           condition, evaluated, scorer_vars, outcome_vars, sessions_vars, handler_vars >>

-----------------------------------------------------------------------------
(* Python values a response can hold.  Every value is a record of the same  *)
(* shape so that values of different Python types can be compared.          *)

VBool(b) == [t |-> "bool", b |-> b, n |-> 0, s |-> ""]
VNum(n) == [t |-> "num", b |-> FALSE, n |-> n, s |-> ""]
VStr(s) == [t |-> "str", b |-> FALSE, n |-> 0, s |-> s]
None == [t |-> "none", b |-> FALSE, n |-> 0, s |-> ""]

(* Outcome of an evaluation: a boolean, or the exception that escaped.      *)
Returns(b) == [raised |-> FALSE, value |-> b]
ValueError == [raised |-> TRUE, value |-> FALSE]

(* Outcome of a float(...) conversion.                                      *)
Float(n) == [ok |-> TRUE, n |-> n]
NotAFloat == [ok |-> FALSE, n |-> 0]

-----------------------------------------------------------------------------
(* Python str operations used by the evaluator.                             *)

\* sub in s
Contains(s, sub) ==
  \E i \in 1..(Len(s) - Len(sub) + 1) : SubSeq(s, i, i + Len(sub) - 1) = sub

\* s.find(sub): index of the first occurrence, 0 if there is none
Find(s, sub) ==
  LET hits == { i \in 1..(Len(s) - Len(sub) + 1) : SubSeq(s, i, i + Len(sub) - 1) = sub }
  IN  IF hits = {} THEN 0 ELSE CHOOSE i \in hits : \A j \in hits : i <= j

\* s.split(sep)
RECURSIVE Split(_, _)
Split(s, sep) ==
  LET i == Find(s, sep)
  IN  IF i = 0 THEN << s >>
      ELSE << SubSeq(s, 1, i - 1) >> \o Split(SubSeq(s, i + Len(sep), Len(s)), sep)

\* s.strip(), for the blanks the condition strings contain
RECURSIVE Strip(_)
Strip(s) ==
  IF Len(s) > 0 /\ SubSeq(s, 1, 1) = " " THEN Strip(SubSeq(s, 2, Len(s)))
  ELSE IF Len(s) > 0 /\ SubSeq(s, Len(s), Len(s)) = " " THEN Strip(SubSeq(s, 1, Len(s) - 1))
  ELSE s

\* sep.join(parts)
RECURSIVE Join(_, _)
Join(parts, sep) ==
  IF Len(parts) = 0 THEN ""
  ELSE IF Len(parts) = 1 THEN parts[1]
  ELSE parts[1] \o sep \o Join(Tail(parts), sep)

\* s.endswith(suffix)
EndsWith(s, suffix) ==
  Len(s) >= Len(suffix) /\ SubSeq(s, Len(s) - Len(suffix) + 1, Len(s)) = suffix

\* s.replace(old, new)
RECURSIVE Replace(_, _, _)
Replace(s, old, new) ==
  LET i == Find(s, old)
  IN  IF i = 0 THEN s
      ELSE SubSeq(s, 1, i - 1) \o new \o Replace(SubSeq(s, i + Len(old), Len(s)), old, new)

Digits == << "0", "1", "2", "3", "4", "5", "6", "7", "8", "9" >>

IsDigit(c) == \E d \in 1..10 : Digits[d] = c

DigitValue(c) == (CHOOSE d \in 1..10 : Digits[d] = c) - 1

\* float(s) for a str: a run of decimal digits is a number, anything else
\* (letters, the empty string) raises ValueError.  Signs, fractions and
\* exponents are outside the values the model records.
RECURSIVE ParseDigits(_, _)
ParseDigits(s, acc) ==
  IF Len(s) = 0 THEN Float(acc)
  ELSE IF IsDigit(SubSeq(s, 1, 1))
       THEN ParseDigits(SubSeq(s, 2, Len(s)), 10 * acc + DigitValue(SubSeq(s, 1, 1)))
       ELSE NotAFloat

FloatOfStr(s) ==
  LET body == Strip(s) IN IF Len(body) = 0 THEN NotAFloat ELSE ParseDigits(body, 0)

\* float(response): float(True) = 1.0, float(False) = 0.0, a number is itself,
\* a str is parsed, None raises TypeError (never reached: guarded by the caller)
FloatOf(v) ==
  CASE v.t = "bool" -> Float(IF v.b THEN 1 ELSE 0)
    [] v.t = "num" -> Float(v.n)
    [] v.t = "str" -> FloatOfStr(v.s)
    [] OTHER -> NotAFloat

\* str(n) for a natural number
RECURSIVE StrOfNat(_)
StrOfNat(n) ==
  IF n < 10 THEN Digits[n + 1] ELSE StrOfNat(n \div 10) \o Digits[(n % 10) + 1]

\* str(response)
StrOf(v) ==
  CASE v.t = "bool" -> (IF v.b THEN "True" ELSE "False")
    [] v.t = "num" -> StrOfNat(v.n)
    [] v.t = "str" -> v.s
    [] OTHER -> "None"

\* response in [True, "yes", "Yes"]: list membership is by ==, and 1 == True
InYesList(v) ==
  \/ v.t = "bool" /\ v.b
  \/ v.t = "num" /\ v.n = 1
  \/ v.t = "str" /\ v.s \in {"yes", "Yes"}

\* response in [False, "no", "No"]: 0 == False
InNoList(v) ==
  \/ v.t = "bool" /\ ~v.b
  \/ v.t = "num" /\ v.n = 0
  \/ v.t = "str" /\ v.s \in {"no", "No"}

\* d.get(key)
Get(d, key) == IF key \in DOMAIN d THEN d[key] ELSE None

\* d[key] = value
Put(d, key, value) == [k \in (DOMAIN d) \cup {key} |-> IF k = key THEN value ELSE d[k]]

EmptyDict == [k \in {} |-> None]

-----------------------------------------------------------------------------
(* Protocol templates.                                                      *)

TriageQuestion(id, text, type, required) ==
  [id |-> id, text |-> text, type |-> type, required |-> required]

\* StepTransition.next_step and the results of get_next_step: a step number,
\* "emergency" or "complete"
StepNumber(n) == [kind |-> "step", n |-> n]
Emergency == [kind |-> "emergency", n |-> 0]
Complete == [kind |-> "complete", n |-> 0]
Raised == [kind |-> "ValueError", n |-> 0]
NoResult == [kind |-> "none", n |-> 0]

StepTransition(cond, next) == [condition |-> cond, next_step |-> next]

create_fall_protocol ==
  [protocol_type |-> "fall",
   steps |-> <<
     [step_number |-> 1,
      questions |-> <<
         TriageQuestion("consciousness",
           "Is the elder conscious and breathing normally?",
           "yes_no", TRUE),
         TriageQuestion("severe_injury",
           "Is there severe bleeding, head injury, or inability to move?",
           "yes_no", TRUE),
         TriageQuestion("pain_level_initial",
           "On a scale of 1-10, how severe is the pain?",
           "scale", TRUE) >>,
      critical_flags |-> << "consciousness_no", "severe_injury_yes", "pain_level_initial_8_plus" >>,
      next_step_logic |-> <<
         StepTransition("consciousness_no OR severe_injury_yes OR pain_level_initial >= 8",
           Emergency),
         StepTransition("consciousness_yes AND severe_injury_no AND pain_level_initial < 8",
           StepNumber(2)) >>],
     [step_number |-> 2,
      questions |-> <<
         TriageQuestion("pain_location",
           "Where is the pain located?",
           "multiple_choice", TRUE),
         TriageQuestion("mobility_status",
           "Can the elder move without assistance?",
           "yes_no", TRUE),
         TriageQuestion("current_medications",
           "Is the elder taking blood thinners or other medications?",
           "yes_no", TRUE),
         TriageQuestion("head_injury_check",
           "Did the elder hit their head during the fall?",
           "yes_no", TRUE),
         TriageQuestion("confusion_check",
           "Is the elder confused or disoriented?",
           "yes_no", TRUE) >>,
      critical_flags |-> << "head_injury_check_yes", "confusion_check_yes" >>,
      next_step_logic |-> <<
         StepTransition("head_injury_check_yes OR confusion_check_yes",
           Emergency),
         StepTransition("mobility_status_no",
           Emergency),
         StepTransition("DEFAULT",
           StepNumber(3)) >>],
     [step_number |-> 3,
      questions |-> <<
         TriageQuestion("action_preference",
           "Based on the assessment, what action would you prefer?",
           "multiple_choice", TRUE) >>,
      critical_flags |-> <<  >>,
      next_step_logic |-> <<
         StepTransition("DEFAULT",
           StepNumber(4)) >>],
     [step_number |-> 4,
      questions |-> <<
         TriageQuestion("action_taken",
           "What action was taken?",
           "text", TRUE),
         TriageQuestion("emergency_called",
           "Were emergency services called?",
           "yes_no", TRUE),
         TriageQuestion("outcome_notes",
           "Additional notes about the outcome:",
           "text", FALSE) >>,
      critical_flags |-> <<  >>,
      next_step_logic |-> <<
         StepTransition("DEFAULT",
           Complete) >>]
   >>]

create_injury_protocol ==
  [protocol_type |-> "injury",
   steps |-> <<
     [step_number |-> 1,
      questions |-> <<
         TriageQuestion("consciousness",
           "Is the elder conscious and alert?",
           "yes_no", TRUE),
         TriageQuestion("bleeding_severity",
           "Is there active bleeding?",
           "multiple_choice", TRUE),
         TriageQuestion("breathing_status",
           "Is breathing normal and unlabored?",
           "yes_no", TRUE) >>,
      critical_flags |-> << "consciousness_no", "bleeding_severity_severe", "breathing_status_no" >>,
      next_step_logic |-> <<
         StepTransition("consciousness_no OR bleeding_severity_severe OR breathing_status_no",
           Emergency),
         StepTransition("DEFAULT",
           StepNumber(2)) >>],
     [step_number |-> 2,
      questions |-> <<
         TriageQuestion("injury_location",
           "Where is the injury located?",
           "multiple_choice", TRUE),
         TriageQuestion("pain_scale",
           "Pain level (0-10 scale):",
           "scale", TRUE),
         TriageQuestion("mobility_affected",
           "Is mobility affected by the injury?",
           "yes_no", TRUE),
         TriageQuestion("swelling_present",
           "Is there visible swelling or deformity?",
           "yes_no", TRUE) >>,
      critical_flags |-> << "pain_scale_8_plus" >>,
      next_step_logic |-> <<
         StepTransition("pain_scale >= 8",
           Emergency),
         StepTransition("DEFAULT",
           StepNumber(3)) >>],
     [step_number |-> 3,
      questions |-> <<
         TriageQuestion("recommended_action",
           "Recommended next step:",
           "multiple_choice", TRUE) >>,
      critical_flags |-> <<  >>,
      next_step_logic |-> <<
         StepTransition("DEFAULT",
           StepNumber(4)) >>],
     [step_number |-> 4,
      questions |-> <<
         TriageQuestion("action_taken",
           "Action taken:",
           "text", TRUE),
         TriageQuestion("emergency_called",
           "Were emergency services contacted?",
           "yes_no", TRUE),
         TriageQuestion("follow_up_needed",
           "Is follow-up care needed?",
           "yes_no", TRUE) >>,
      critical_flags |-> <<  >>,
      next_step_logic |-> <<
         StepTransition("DEFAULT",
           Complete) >>]
   >>]

create_chest_pain_protocol ==
  [protocol_type |-> "chest_pain",
   steps |-> <<
     [step_number |-> 1,
      questions |-> <<
         TriageQuestion("consciousness",
           "Is the elder conscious and responsive?",
           "yes_no", TRUE),
         TriageQuestion("chest_pain_severity",
           "How severe is the chest pain (0-10)?",
           "scale", TRUE),
         TriageQuestion("breathing_difficulty",
           "Is there difficulty breathing or shortness of breath?",
           "yes_no", TRUE),
         TriageQuestion("sweating_nausea",
           "Is there sweating, nausea, or dizziness?",
           "yes_no", TRUE) >>,
      critical_flags |-> << "consciousness_no", "chest_pain_severity_7_plus", "breathing_difficulty_yes", "sweating_nausea_yes" >>,
      next_step_logic |-> <<
         StepTransition("consciousness_no OR chest_pain_severity >= 7 OR breathing_difficulty_yes OR sweating_nausea_yes",
           Emergency),
         StepTransition("DEFAULT",
           StepNumber(2)) >>],
     [step_number |-> 2,
      questions |-> <<
         TriageQuestion("pain_duration",
           "How long has the chest pain been present?",
           "multiple_choice", TRUE),
         TriageQuestion("pain_radiation",
           "Does the pain radiate to arm, jaw, or back?",
           "yes_no", TRUE),
         TriageQuestion("cardiac_history",
           "Does the elder have a history of heart problems?",
           "yes_no", TRUE),
         TriageQuestion("current_medications",
           "Is the elder taking heart medications?",
           "yes_no", TRUE) >>,
      critical_flags |-> << "pain_radiation_yes" >>,
      next_step_logic |-> <<
         StepTransition("pain_radiation_yes OR pain_duration_more_than_30",
           Emergency),
         StepTransition("DEFAULT",
           StepNumber(3)) >>],
     [step_number |-> 3,
      questions |-> <<
         TriageQuestion("immediate_action",
           "Immediate action required:",
           "multiple_choice", TRUE) >>,
      critical_flags |-> <<  >>,
      next_step_logic |-> <<
         StepTransition("DEFAULT",
           StepNumber(4)) >>],
     [step_number |-> 4,
      questions |-> <<
         TriageQuestion("action_taken",
           "Action taken:",
           "text", TRUE),
         TriageQuestion("emergency_called",
           "Were emergency services called?",
           "yes_no", TRUE),
         TriageQuestion("symptoms_resolved",
           "Have symptoms improved or resolved?",
           "yes_no", TRUE) >>,
      critical_flags |-> <<  >>,
      next_step_logic |-> <<
         StepTransition("DEFAULT",
           Complete) >>]
   >>]

create_confusion_protocol ==
  [protocol_type |-> "confusion",
   steps |-> <<
     [step_number |-> 1,
      questions |-> <<
         TriageQuestion("responsiveness",
           "Is the elder responsive to voice and touch?",
           "yes_no", TRUE),
         TriageQuestion("orientation_check",
           "Does the elder know their name, location, and date?",
           "multiple_choice", TRUE),
         TriageQuestion("physical_symptoms",
           "Are there any physical symptoms (fever, weakness, difficulty speaking)?",
           "yes_no", TRUE) >>,
      critical_flags |-> << "responsiveness_no", "orientation_check_knows_none", "physical_symptoms_yes" >>,
      next_step_logic |-> <<
         StepTransition("responsiveness_no OR orientation_check_knows_none OR physical_symptoms_yes",
           Emergency),
         StepTransition("DEFAULT",
           StepNumber(2)) >>],
     [step_number |-> 2,
      questions |-> <<
         TriageQuestion("confusion_onset",
           "When did the confusion start?",
           "multiple_choice", TRUE),
         TriageQuestion("medication_changes",
           "Have there been recent medication changes?",
           "yes_no", TRUE),
         TriageQuestion("recent_illness",
           "Has the elder been ill recently (UTI, infection, etc.)?",
           "yes_no", TRUE),
         TriageQuestion("safety_concerns",
           "Are there immediate safety concerns (wandering, agitation)?",
           "yes_no", TRUE) >>,
      critical_flags |-> << "safety_concerns_yes" >>,
      next_step_logic |-> <<
         StepTransition("safety_concerns_yes OR confusion_onset_suddenly",
           Emergency),
         StepTransition("DEFAULT",
           StepNumber(3)) >>],
     [step_number |-> 3,
      questions |-> <<
         TriageQuestion("recommended_care",
           "Recommended level of care:",
           "multiple_choice", TRUE) >>,
      critical_flags |-> <<  >>,
      next_step_logic |-> <<
         StepTransition("DEFAULT",
           StepNumber(4)) >>],
     [step_number |-> 4,
      questions |-> <<
         TriageQuestion("action_taken",
           "Action taken:",
           "text", TRUE),
         TriageQuestion("emergency_called",
           "Were emergency services called?",
           "yes_no", TRUE),
         TriageQuestion("safety_measures",
           "What safety measures were implemented?",
           "text", FALSE) >>,
      critical_flags |-> <<  >>,
      next_step_logic |-> <<
         StepTransition("DEFAULT",
           Complete) >>]
   >>]
ProtocolTypes == {"fall", "injury", "chest_pain", "confusion"}

PROTOCOL_TEMPLATES ==
  [pt \in ProtocolTypes |->
     CASE pt = "fall" -> create_fall_protocol
       [] pt = "injury" -> create_injury_protocol
       [] pt = "chest_pain" -> create_chest_pain_protocol
       [] pt = "confusion" -> create_confusion_protocol]

-----------------------------------------------------------------------------
(* The condition evaluator.                                                 *)

\* response is not None and float(response) >= float(value)
CompareGE(response, value) ==
  IF response = None THEN Returns(FALSE)
  ELSE LET l == FloatOf(response)
           r == FloatOfStr(value)
       IN  IF ~l.ok \/ ~r.ok THEN ValueError ELSE Returns(l.n >= r.n)

\* response is not None and float(response) <= float(value)
CompareLE(response, value) ==
  IF response = None THEN Returns(FALSE)
  ELSE LET l == FloatOf(response)
           r == FloatOfStr(value)
       IN  IF ~l.ok \/ ~r.ok THEN ValueError ELSE Returns(l.n <= r.n)

\* the exact-match branch: question_id_expected_value
ExactMatch(parts, resp) ==
  IF Len(parts) >= 3
  THEN LET question_id == Join(SubSeq(parts, 1, Len(parts) - 1), "_")
           expected_value == parts[Len(parts)]
           response == Get(resp, question_id)
       IN  IF expected_value = "yes" THEN Returns(InYesList(response))
           ELSE IF expected_value = "no" THEN Returns(InNoList(response))
           ELSE IF EndsWith(expected_value, "plus")
                THEN LET threshold == Replace(expected_value, "_plus", "")
                         l == FloatOf(response)
                         r == FloatOfStr(threshold)
                     IN  \* ValueError and TypeError are caught here
                         IF response = None THEN Returns(FALSE)
                         ELSE IF ~l.ok \/ ~r.ok THEN Returns(FALSE)
                         ELSE Returns(l.n >= r.n)
           ELSE Returns(StrOf(response) = expected_value)
  ELSE Returns(FALSE)

evaluate_single_condition(cond, resp) ==
  IF Contains(cond, ">=")
  THEN LET sides == Split(cond, ">=")
       IN  IF Len(sides) # 2 THEN ValueError  \* question_id, value = ... does not unpack
           ELSE CompareGE(Get(resp, Strip(sides[1])), Strip(sides[2]))
  ELSE IF Contains(cond, "<=")
  THEN LET sides == Split(cond, "<=")
       IN  IF Len(sides) # 2 THEN ValueError
           ELSE CompareLE(Get(resp, Strip(sides[1])), Strip(sides[2]))
  ELSE ExactMatch(Split(cond, "_"), resp)

\* any(... for cond in or_conditions): stops at the first true one, and an
\* exception raised on the way escapes
RECURSIVE AnyOf(_, _)
AnyOf(conds, resp) ==
  IF Len(conds) = 0 THEN Returns(FALSE)
  ELSE LET r == evaluate_single_condition(Strip(conds[1]), resp)
       IN  IF r.raised THEN ValueError
           ELSE IF r.value THEN Returns(TRUE)
           ELSE AnyOf(Tail(conds), resp)

\* all(... for cond in and_conditions): stops at the first false one
RECURSIVE AllOf(_, _)
AllOf(conds, resp) ==
  IF Len(conds) = 0 THEN Returns(TRUE)
  ELSE LET r == evaluate_single_condition(Strip(conds[1]), resp)
       IN  IF r.raised THEN ValueError
           ELSE IF ~r.value THEN Returns(FALSE)
           ELSE AllOf(Tail(conds), resp)

evaluate_condition(cond, resp) ==
  IF cond = "DEFAULT" THEN Returns(TRUE)
  ELSE IF Contains(cond, " OR ") THEN AnyOf(Split(cond, " OR "), resp)
  ELSE IF Contains(cond, " AND ") THEN AllOf(Split(cond, " AND "), resp)
  ELSE evaluate_single_condition(cond, resp)

-----------------------------------------------------------------------------
(* TriageProtocolStateMachine: the methods as operators of the session      *)
(* fields (pt = protocol_type, step = current_step_number, resp = responses)*)

NoStep ==
  [step_number |-> 0, questions |-> << >>, critical_flags |-> << >>, next_step_logic |-> << >>]

\* _find_step_by_number: the first step with that number, None if there is none
find_step_by_number(pt, step_number) ==
  LET steps == PROTOCOL_TEMPLATES[pt].steps
      found == { i \in 1..Len(steps) : steps[i].step_number = step_number }
  IN  IF found = {} THEN NoStep
      ELSE steps[CHOOSE i \in found : \A j \in found : i <= j]

\* for flag in current_step.critical_flags: if evaluate(flag): return True
RECURSIVE AnyFlag(_, _)
AnyFlag(flags, resp) ==
  IF Len(flags) = 0 THEN Returns(FALSE)
  ELSE LET r == evaluate_condition(flags[1], resp)
       IN  IF r.raised THEN ValueError
           ELSE IF r.value THEN Returns(TRUE)
           ELSE AnyFlag(Tail(flags), resp)

has_critical_flags(pt, step, resp) ==
  LET current_step == find_step_by_number(pt, step)
  IN  IF current_step = NoStep THEN Returns(FALSE)
      ELSE AnyFlag(current_step.critical_flags, resp)

\* for transition in current_step.next_step_logic: the first whose condition
\* evaluates true decides; NoResult if none does
RECURSIVE FirstTransition(_, _)
FirstTransition(transitions, resp) ==
  IF Len(transitions) = 0 THEN NoResult
  ELSE LET r == evaluate_condition(transitions[1].condition, resp)
       IN  IF r.raised THEN Raised
           ELSE IF r.value THEN transitions[1].next_step
           ELSE FirstTransition(Tail(transitions), resp)

get_next_step(pt, step, resp) ==
  LET current_step == find_step_by_number(pt, step)
  IN  IF current_step = NoStep THEN Complete
      ELSE LET t == FirstTransition(current_step.next_step_logic, resp)
           IN  IF t # NoResult THEN t
               ELSE IF find_step_by_number(pt, step + 1) # NoStep
                    THEN StepNumber(step + 1)
                    ELSE Complete

FollowUpTask(title, priority, dueInHours) ==
  [title |-> title, priority |-> priority, dueInHours |-> dueInHours]

ActionPlan(recommendation, urgencyLevel, estimatedTimeframe, followUpTasks) ==
  [recommendation |-> recommendation, urgencyLevel |-> urgencyLevel,
   estimatedTimeframe |-> estimatedTimeframe, followUpTasks |-> followUpTasks]

generate_emergency_action_plan ==
  ActionPlan("call_911", 10, "Immediate",
             << FollowUpTask("Follow up on emergency response", "urgent", 1) >>)

\* responses.get(key, 0) followed by float(...) with ValueError/TypeError -> 0
PainLevel(resp, key) ==
  LET f == FloatOf(IF key \in DOMAIN resp THEN resp[key] ELSE VNum(0))
  IN  IF f.ok THEN f.n ELSE 0

\* generate_fall_action_plan with the pain threshold one too low (>= 5)
generate_fall_action_plan_low_threshold(resp) ==
  LET pain_level == PainLevel(resp, "pain_level_initial")
      can_move == Get(resp, "mobility_status")
  IN  IF pain_level >= 5 \/ InNoList(can_move)
      THEN ActionPlan("urgent_care", 7, "Within 2 hours",
                      << FollowUpTask("Arrange urgent care visit", "high", 2) >>)
      ELSE ActionPlan("monitor", 4, "Monitor for 24 hours",
                      << FollowUpTask("Monitor post-fall condition", "medium", 4) >>)

generate_fall_action_plan(resp) ==
  LET pain_level == PainLevel(resp, "pain_level_initial")
      can_move == Get(resp, "mobility_status")
  IN  IF pain_level >= 6 \/ InNoList(can_move)
      THEN ActionPlan("urgent_care", 7, "Within 2 hours",
                      << FollowUpTask("Arrange urgent care visit", "high", 2) >>)
      ELSE ActionPlan("monitor", 4, "Monitor for 24 hours",
                      << FollowUpTask("Monitor post-fall condition", "medium", 4) >>)

\* generate_injury_action_plan with the threshold of the emergency transition
\* (pain_scale >= 8) in place of its own
generate_injury_action_plan_high_threshold(resp) ==
  LET pain_level == PainLevel(resp, "pain_scale")
      bleeding_severity ==
        IF "bleeding_severity" \in DOMAIN resp THEN resp["bleeding_severity"] ELSE VStr("none")
  IN  IF pain_level >= 8 \/ bleeding_severity = VStr("Moderate bleeding")
      THEN ActionPlan("urgent_care", 6, "Within 4 hours", << >>)
      ELSE ActionPlan("monitor", 3, "Monitor closely", << >>)

generate_injury_action_plan(resp) ==
  LET pain_level == PainLevel(resp, "pain_scale")
      bleeding_severity ==
        IF "bleeding_severity" \in DOMAIN resp THEN resp["bleeding_severity"] ELSE VStr("none")
  IN  IF pain_level >= 7 \/ bleeding_severity = VStr("Moderate bleeding")
      THEN ActionPlan("urgent_care", 6, "Within 4 hours", << >>)
      ELSE ActionPlan("monitor", 3, "Monitor closely", << >>)

\* generate_chest_pain_action_plan that downgrades like the other protocols
generate_chest_pain_action_plan_downgraded ==
  ActionPlan("monitor", 4, "Monitor for 24 hours",
             << FollowUpTask("Urgent cardiac evaluation", "urgent", 1) >>)

generate_chest_pain_action_plan ==
  ActionPlan("urgent_care", 8, "Within 1 hour",
             << FollowUpTask("Urgent cardiac evaluation", "urgent", 1) >>)

generate_confusion_action_plan(resp) ==
  LET onset_type == Get(resp, "confusion_onset")
      medication_changes == Get(resp, "medication_changes")
  IN  IF onset_type = VStr("Suddenly (minutes)") \/ InYesList(medication_changes)
      THEN ActionPlan("urgent_care", 7, "Within 2 hours", << >>)
      ELSE ActionPlan("nurse_line", 5, "Within 4 hours", << >>)

generate_protocol_specific_action_plan(pt, resp) ==
  CASE pt = "fall" -> generate_fall_action_plan(resp)
    [] pt = "injury" -> generate_injury_action_plan(resp)
    [] pt = "chest_pain" -> generate_chest_pain_action_plan
    [] pt = "confusion" -> generate_confusion_action_plan(resp)

generate_action_plan(pt, step, resp) ==
  IF has_critical_flags(pt, step, resp).value
  THEN generate_emergency_action_plan
  ELSE generate_protocol_specific_action_plan(pt, resp)

\* for question in current_step.questions: the text of each required one
\* whose id is not a key of the responses
RECURSIVE MissingQuestions(_, _)
MissingQuestions(questions, resp) ==
  IF Len(questions) = 0 THEN << >>
  ELSE (IF questions[1].required /\ questions[1].id \notin DOMAIN resp
        THEN << questions[1].text >> ELSE << >>)
       \o MissingQuestions(Tail(questions), resp)

Validation(valid, missing) == [valid |-> valid, missing |-> missing]

\* validate_current_step that returns at the first missing question
validate_current_step_first_missing_only(pt, step, resp) ==
  LET current_step == find_step_by_number(pt, step)
  IN  IF current_step = NoStep THEN Validation(FALSE, << "Invalid step" >>)
      ELSE LET missing_questions == MissingQuestions(current_step.questions, resp)
           IN  Validation(Len(missing_questions) = 0,
                          IF Len(missing_questions) = 0 THEN missing_questions
                          ELSE << missing_questions[1] >>)

validate_current_step(pt, step, resp) ==
  LET current_step == find_step_by_number(pt, step)
  IN  IF current_step = NoStep THEN Validation(FALSE, << "Invalid step" >>)
      ELSE LET missing_questions == MissingQuestions(current_step.questions, resp)
           IN  Validation(Len(missing_questions) = 0, missing_questions)

-----------------------------------------------------------------------------
(* The session as a state machine.                                          *)

NotEvaluated == [raised |-> FALSE, value |-> FALSE]

\* no outcome is captured, no other session is open, no event is handled
NothingElse ==
  /\ capture_request = [template_type |-> "", outcome |-> "", notes |-> "", now |-> 0]
  /\ captured = [called |-> FALSE, success |-> FALSE, errors |-> << >>, outcome |-> << >>]
  /\ follow_up_tasks = [called |-> FALSE, tasks |-> << >>]
  /\ sessions = [a \in {} |-> 0]
  /\ alone = [a \in {} |-> 0]
  /\ operated = ""
  /\ event = [alert_type |-> "", urgency |-> ""]
  /\ existing_alerts = << >>
  /\ llm_reply = [kind |-> "none", recommended_member |-> 0]
  /\ writes = << >>
  /\ handler_response = [statusCode |-> 0, skipped |-> FALSE]

\* a session is not given a task to assign
NoTask == [required_skills |-> << >>, urgency |-> "medium", elder_zipcode |-> ""]

\* __init__, with the response map the session starts from
InitSession(pt, resp) ==
  /\ protocol_type = pt
  /\ current_step_number = 1
  /\ responses = resp
  /\ op = "init"
  /\ next_step = NoResult
  /\ returned = NoResult
  /\ condition = ""
  /\ evaluated = NotEvaluated
  /\ task = NoTask
  /\ members = << >>
  /\ zip_hash = [z \in {} |-> 0]
  /\ active_tasks = [m \in {} |-> 0]
  /\ scored_members = << >>
  /\ NothingElse

record_response(question_id, response) ==
  /\ responses' = Put(responses, question_id, response)
  /\ op' = "record_response"
  /\ next_step' = NoResult
  /\ UNCHANGED << protocol_type, current_step_number, returned, condition, evaluated, scorer_vars,
                  outcome_vars, sessions_vars, handler_vars >>

\* get_next_step() that also moves the session to the step it computed
GetNextStepAdvancing ==
  LET next == get_next_step(protocol_type, current_step_number, responses)
  IN  /\ next_step' = next
      /\ op' = "get_next_step"
      /\ current_step_number' = IF next.kind = "step" THEN next.n ELSE current_step_number
      /\ UNCHANGED << protocol_type, responses, returned, condition, evaluated, scorer_vars,
                  outcome_vars, sessions_vars, handler_vars >>

\* a call of get_next_step(): reads the session, assigns nothing
GetNextStep ==
  /\ next_step' = get_next_step(protocol_type, current_step_number, responses)
  /\ op' = "get_next_step"
  /\ UNCHANGED << protocol_type, current_step_number, responses, returned, condition, evaluated, scorer_vars,
                  outcome_vars, sessions_vars, handler_vars >>

\* proceed_to_next_step that starts over at step 1 once the protocol is complete
proceed_to_next_step_restart ==
  LET next == get_next_step(protocol_type, current_step_number, responses)
  IN  /\ op' = "proceed_to_next_step"
      /\ next_step' = NoResult
      /\ returned' = next
      /\ current_step_number' = IF next.kind = "step" THEN next.n
                                ELSE IF next = Complete THEN 1
                                ELSE current_step_number
      /\ UNCHANGED << protocol_type, responses, condition, evaluated, scorer_vars,
                  outcome_vars, sessions_vars, handler_vars >>

\* proceed_to_next_step whose terminal test knows "complete" only, so that
\* "emergency" falls through to the final return "complete"
proceed_to_next_step_emergency_dropped ==
  LET next == get_next_step(protocol_type, current_step_number, responses)
  IN  /\ op' = "proceed_to_next_step"
      /\ next_step' = NoResult
      /\ returned' = IF next = Emergency THEN Complete ELSE next
      /\ current_step_number' = IF next.kind = "step" THEN next.n ELSE current_step_number
      /\ UNCHANGED << protocol_type, responses, condition, evaluated, scorer_vars,
                  outcome_vars, sessions_vars, handler_vars >>

\* proceed_to_next_step that refuses to leave a step whose required
\* questions are not all answered
proceed_to_next_step_gated ==
  LET next == get_next_step(protocol_type, current_step_number, responses)
  IN  /\ op' = "proceed_to_next_step"
      /\ next_step' = NoResult
      /\ IF ~validate_current_step(protocol_type, current_step_number, responses).valid
         THEN current_step_number' = current_step_number /\ returned' = Raised
         ELSE IF next.kind = "step"
         THEN current_step_number' = next.n /\ returned' = next
         ELSE current_step_number' = current_step_number /\ returned' = next
      /\ UNCHANGED << protocol_type, responses, condition, evaluated, scorer_vars,
                  outcome_vars, sessions_vars, handler_vars >>

\* proceed_to_next_step that counts the step on once the protocol is complete
proceed_to_next_step_past_the_end ==
  LET next == get_next_step(protocol_type, current_step_number, responses)
  IN  /\ op' = "proceed_to_next_step"
      /\ next_step' = NoResult
      /\ returned' = next
      /\ current_step_number' = IF next.kind = "step" THEN next.n
                                ELSE IF next = Complete THEN current_step_number + 1
                                ELSE current_step_number
      /\ UNCHANGED << protocol_type, responses, condition, evaluated, scorer_vars,
                  outcome_vars, sessions_vars, handler_vars >>

proceed_to_next_step ==
  LET next == get_next_step(protocol_type, current_step_number, responses)
  IN  /\ op' = "proceed_to_next_step"
      /\ next_step' = NoResult
      /\ IF next.kind = "step"
         THEN \* get_current_step() of the new step: found, since the step exists
              /\ current_step_number' = next.n
              /\ returned' = IF find_step_by_number(protocol_type, next.n) # NoStep
                             THEN next ELSE Raised
         ELSE /\ current_step_number' = current_step_number
              /\ returned' = next
      /\ UNCHANGED << protocol_type, responses, condition, evaluated, scorer_vars,
                  outcome_vars, sessions_vars, handler_vars >>

-----------------------------------------------------------------------------
(* Inputs of the model.                                                     *)

\* the scale questions are answered with a number of 0..MaxPain
MaxPain == 9

\* at most this many distinct question ids are answered in a session that
\* may hold mistyped answers
MaxResponses == 2

\* the yes/no and scale questions that the transitions, the flags and the
\* action plans of each protocol read
AnsweredIds ==
  [pt \in ProtocolTypes |->
     CASE pt = "fall" ->
            {"consciousness", "severe_injury", "pain_level_initial",
             "mobility_status", "head_injury_check", "confusion_check"}
       [] pt = "injury" ->
            {"consciousness", "breathing_status", "pain_scale"}
       [] pt = "chest_pain" ->
            {"consciousness", "chest_pain_severity", "breathing_difficulty",
             "sweating_nausea", "pain_radiation"}
       [] pt = "confusion" ->
            {"responsiveness", "physical_symptoms", "safety_concerns",
             "medication_changes"}]

ScaleIds == {"pain_level_initial", "pain_scale", "chest_pain_severity"}

\* what a caller that validates its input records: booleans for yes/no
\* questions, a number for a scale
TypedAnswers(question_id) ==
  IF question_id \in ScaleIds
  THEN {VNum(n) : n \in 0..MaxPain}
  ELSE {VBool(TRUE), VBool(FALSE)}

\* record_response takes any value: also a text that is not a number
Answers(question_id) ==
  IF question_id \in ScaleIds
  THEN TypedAnswers(question_id) \cup {VStr("abc")}
  ELSE TypedAnswers(question_id)

RecordResponse ==
  \E question_id \in AnsweredIds[protocol_type] :
    \E response \in Answers(question_id) :
      /\ Cardinality((DOMAIN responses) \cup {question_id}) <= MaxResponses
      /\ record_response(question_id, response)

ProceedToNextStep == proceed_to_next_step

Init == \E pt \in ProtocolTypes : InitSession(pt, EmptyDict)

Next == RecordResponse \/ GetNextStep \/ ProceedToNextStep

Spec == Init /\ [][Next]_vars

-----------------------------------------------------------------------------
(* A fall session whose caller records well-typed answers, any number of    *)
(* them, in any order.                                                      *)

RecordAnswer ==
  \E question_id \in AnsweredIds["fall"] :
    \E response \in TypedAnswers(question_id) :
      record_response(question_id, response)

InitFall == InitSession("fall", EmptyDict)

NextFall == RecordAnswer \/ ProceedToNextStep

SpecFall == InitFall /\ [][NextFall]_vars

-----------------------------------------------------------------------------
(* The condition evaluator on its own: Init draws a response map with at    *)
(* most one entry, Evaluate applies evaluate_condition to it.               *)

AllQuestionIds ==
  UNION { { PROTOCOL_TEMPLATES[pt].steps[i].questions[j].id :
              j \in 1..Len(PROTOCOL_TEMPLATES[pt].steps[i].questions) } :
          pt \in ProtocolTypes, i \in 1..4 }

\* the comparison threshold of the templates ("pain_scale >= 8")
Threshold == "8"

YesStrings == {"yes", "Yes", "YES"}
NoStrings == {"no", "No", "NO"}

EvalValues ==
  {VBool(TRUE), VBool(FALSE), VStr("abc")}
    \cup {VNum(n) : n \in 0..MaxPain}
    \cup {VStr(StrOfNat(n)) : n \in 0..MaxPain}
    \cup {VStr(s) : s \in YesStrings \cup NoStrings}

YesNoConditions == { id \o "_yes" : id \in AllQuestionIds } \cup { id \o "_no" : id \in AllQuestionIds }

ComparisonConditions ==
  { id \o " >= " \o Threshold : id \in ScaleIds } \cup { id \o " <= " \o Threshold : id \in ScaleIds }

\* the "_plus" critical flags of the templates
PlusConditions ==
  {"pain_level_initial_8_plus", "pain_scale_8_plus", "chest_pain_severity_7_plus"}

\* condition strings that no template holds: no operator and fewer than
\* three "_" parts, a threshold that is not a number, two operators
MalformedConditions ==
  {"bogus_garbage", "pain_scale >= severe", "pain_scale >= 8 >= 9"}

EvalConditions ==
  YesNoConditions \cup ComparisonConditions \cup PlusConditions \cup MalformedConditions

InitEval ==
  \E resp \in {EmptyDict} \cup { Put(EmptyDict, id, v) : id \in AllQuestionIds, v \in EvalValues } :
    InitSession("fall", resp)

\* one evaluation per drawn response map
Evaluate ==
  \E c \in EvalConditions :
    /\ op = "init"
    /\ condition' = c
    /\ evaluated' = evaluate_condition(c, responses)
    /\ op' = "evaluate_condition"
    /\ UNCHANGED << protocol_type, current_step_number, responses, next_step, returned, scorer_vars,
                  outcome_vars, sessions_vars, handler_vars >>

NextEval == Evaluate

SpecEval == InitEval /\ [][NextEval]_vars

TypeOK ==
  /\ protocol_type \in ProtocolTypes
  /\ current_step_number \in 1..4
  /\ op \in {"init", "record_response", "get_next_step", "proceed_to_next_step",
             "evaluate_condition", "multi_agent_scoring", "multi_agent_scoring_again",
             "capture_outcome", "generate_follow_up_tasks", "lambda_handler"}
  /\ \A k \in DOMAIN responses : responses[k] # None

-----------------------------------------------------------------------------
(* The methods applied to the current session.                              *)

CriticalFlags == has_critical_flags(protocol_type, current_step_number, responses)

NextStepNow == get_next_step(protocol_type, current_step_number, responses)

PlanNow == generate_action_plan(protocol_type, current_step_number, responses)

IsEmergencyPlan(plan) ==
  /\ plan.recommendation = "call_911"
  /\ plan.urgencyLevel = 10
  /\ Len(plan.followUpTasks) = 1
  /\ plan.followUpTasks[1].dueInHours = 1

-----------------------------------------------------------------------------
(* Properties of the triage session (specification Spec).                   *)

\* C1: a fall session at step 1 whose answer to "consciousness" is the
\* boolean false has a critical flag and its next step is "emergency".
C1_UnconsciousFallEscalates ==
  (/\ protocol_type = "fall"
   /\ current_step_number = 1
   /\ Get(responses, "consciousness") = VBool(FALSE))
    => (CriticalFlags = Returns(TRUE) /\ NextStepNow = Emergency)

\* C2: whenever a critical flag fires or the next step resolves to
\* "emergency", the action plan is the emergency plan (call 911, urgency 10,
\* one follow-up task due in 1 hour).
C2_EscalationYieldsEmergencyPlan ==
  (CriticalFlags.value \/ NextStepNow = Emergency) => IsEmergencyPlan(PlanNow)

\* C3: whenever a critical flag of the current step fires, get_next_step
\* returns "emergency".
C3_CriticalFlagForcesEmergency ==
  CriticalFlags.value => NextStepNow = Emergency

\* C4 as claimed: once proceed_to_next_step has returned "emergency" or
\* "complete", no later call moves the session to another step (stated in
\* its weakest form: a later call that raises is not counted against it).
C4_TerminalResultIsFinal ==
  [][(returned = Emergency \/ returned = Complete)
       => (returned'.kind # "step" /\ current_step_number' = current_step_number)]_vars

\* C4 as amended: once proceed_to_next_step has returned "complete", every
\* later call returns "complete" and leaves the step alone, whatever is
\* recorded in between; after "emergency", the call repeated at once returns
\* "emergency" again and leaves the step alone.
C4_CompleteIsFinal ==
  [][/\ returned = Complete
          => (returned' = Complete /\ current_step_number' = current_step_number)
     /\ (returned = Emergency /\ op = "proceed_to_next_step" /\ op' = "proceed_to_next_step")
          => (returned' = Emergency /\ current_step_number' = current_step_number)]_vars

\* a response was recorded after the protocol completed
C4_Witness ==
  returned = Complete /\ op = "record_response" /\ current_step_number = 4

\* the result C5 describes: the next_step of the first transition whose
\* condition is true, else the following step if the template has it, else
\* "complete"
FirstTrueTransition(pt, step, resp) ==
  LET transitions == find_step_by_number(pt, step).next_step_logic
      matching == { i \in 1..Len(transitions) :
                      evaluate_condition(transitions[i].condition, resp) = Returns(TRUE) }
  IN  IF matching # {}
      THEN transitions[CHOOSE i \in matching : \A j \in matching : i <= j].next_step
      ELSE IF find_step_by_number(pt, step + 1) # NoStep THEN StepNumber(step + 1)
      ELSE Complete

\* C5: get_next_step returns the next_step of the first transition, in
\* declared order, whose condition is true; if there is none, the following
\* step number when the template has it and "complete" otherwise.
C5_FirstMatchingTransitionDecides ==
  NextStepNow = FirstTrueTransition(protocol_type, current_step_number, responses)

\* C6: proceed_to_next_step never touches the responses; when get_next_step
\* gives a step number the session moves to it and that step is returned;
\* otherwise the step stays, and "emergency"/"complete" is what is returned.
C6_AdvanceChangesOnlyTheStep ==
  [][op' = "proceed_to_next_step" =>
       LET next == NextStepNow
       IN  /\ responses' = responses
           /\ protocol_type' = protocol_type
           /\ IF next.kind = "step"
              THEN current_step_number' = next.n /\ returned' = next
              ELSE /\ current_step_number' = current_step_number
                   /\ (next \in {Emergency, Complete} => returned' = next)]_vars

\* the session advanced to step 2 and a later call returned "emergency" there
C6_Witness ==
  op = "proceed_to_next_step" /\ returned = Emergency /\ current_step_number = 2

\* C8: a call of get_next_step changes neither the step nor the responses,
\* and a call that follows another with nothing in between returns the same.
C8_GetNextStepIsPure ==
  [][op' = "get_next_step" =>
       /\ current_step_number' = current_step_number
       /\ responses' = responses
       /\ protocol_type' = protocol_type
       /\ (op = "get_next_step" => next_step' = next_step)]_vars

\* get_next_step was called at step 2 with answers recorded and said "emergency"
C8_Witness ==
  /\ op = "get_next_step"
  /\ next_step = Emergency
  /\ current_step_number = 2
  /\ DOMAIN responses # {}

-----------------------------------------------------------------------------
(* The fall walk-through (specification SpecFall).                          *)

FallStep1Answers ==
  /\ Get(responses, "consciousness") = VBool(TRUE)
  /\ Get(responses, "severe_injury") = VBool(FALSE)
  /\ Get(responses, "pain_level_initial").t = "num"
  /\ Get(responses, "pain_level_initial").n < 6

FallStep2Answers ==
  /\ Get(responses, "mobility_status") = VBool(TRUE)
  /\ Get(responses, "head_injury_check") = VBool(FALSE)
  /\ Get(responses, "confusion_check") = VBool(FALSE)

\* C7: with conscious, no severe injury and a pain level below 6 recorded,
\* step 1 leads to step 2; with mobile, no head injury and no confusion
\* recorded as well, step 2 leads to step 3, where the plan is monitor with
\* urgency 4.
C7_FallMonitorPath ==
  (protocol_type = "fall" /\ FallStep1Answers) =>
    /\ current_step_number = 1 => NextStepNow = StepNumber(2)
    /\ (current_step_number = 2 /\ FallStep2Answers) => NextStepNow = StepNumber(3)
    /\ (current_step_number = 3 /\ FallStep2Answers) =>
         (PlanNow.recommendation = "monitor" /\ PlanNow.urgencyLevel = 4)

\* the walk-through arrived at step 3 with a pain level of 5
C7_Witness ==
  /\ protocol_type = "fall"
  /\ FallStep1Answers
  /\ FallStep2Answers
  /\ Get(responses, "pain_level_initial") = VNum(5)
  /\ current_step_number = 3
  /\ op = "proceed_to_next_step"
  /\ returned = StepNumber(3)

-----------------------------------------------------------------------------
(* Properties of the condition evaluator (specification SpecEval).          *)

\* C9: "<id> >= 8" (resp. "<=") evaluates to true iff the response is there,
\* coerces to a number and satisfies the comparison; otherwise it evaluates
\* to false; it never raises.
C9_ComparisonIsTotal ==
  \A id \in ScaleIds :
    LET response == Get(responses, id)
        number == FloatOf(response)
        bound == FloatOfStr(Threshold).n
    IN  /\ condition = id \o " >= " \o Threshold
             => evaluated = Returns(response # None /\ number.ok /\ number.n >= bound)
        /\ condition = id \o " <= " \o Threshold
             => evaluated = Returns(response # None /\ number.ok /\ number.n <= bound)

SaysYes(v) == v = VBool(TRUE) \/ (v.t = "str" /\ v.s \in YesStrings)

SaysNo(v) == v = VBool(FALSE) \/ (v.t = "str" /\ v.s \in NoStrings)

\* C10: for every question id of the templates, "<id>_yes" is true iff the
\* response is the boolean true or "yes" in any letter case, and "<id>_no"
\* iff it is the boolean false or "no" in any letter case.
\* (Stated for responses that are booleans or strings; what a number does
\* is left open.)
C10_YesNoMatchesEveryQuestion ==
  \A id \in AllQuestionIds :
    Get(responses, id).t \in {"bool", "str"} =>
      /\ condition = id \o "_yes" => evaluated = Returns(SaysYes(Get(responses, id)))
      /\ condition = id \o "_no" => evaluated = Returns(SaysNo(Get(responses, id)))

-----------------------------------------------------------------------------
(* More properties of the condition evaluator (specification SpecEval).     *)

\* the question id and the threshold a "<id>_<N>_plus" condition names
PlusQuestionId(c) ==
  LET parts == Split(c, "_") IN Join(SubSeq(parts, 1, Len(parts) - 2), "_")

PlusThreshold(c) ==
  LET parts == Split(c, "_") IN FloatOfStr(parts[Len(parts) - 1]).n

CoercesAtLeast(v, threshold) == FloatOf(v).ok /\ FloatOf(v).n >= threshold

\* C11: a condition "<id>_<N>_plus" is true iff the response recorded for
\* <id> coerces to a number greater than or equal to N.
C11_PlusComparesWithThreshold ==
  (op = "evaluate_condition" /\ condition \in PlusConditions)
    => evaluated = Returns(CoercesAtLeast(Get(responses, PlusQuestionId(condition)),
                                          PlusThreshold(condition)))

\* C12: the evaluator never raises, whatever the condition string and the
\* response map, and a condition it cannot parse evaluates to false.
C12_EvaluatorIsTotalAndFailClosed ==
  op = "evaluate_condition"
    => /\ ~evaluated.raised
       /\ condition \in MalformedConditions => evaluated = Returns(FALSE)

-----------------------------------------------------------------------------
(* A session whose caller also records responses under question ids that    *)
(* no question of the template has (specification SpecUnrecognized).        *)

\* the ids of the questions of a template
TemplateQuestionIds(pt) ==
  UNION { { PROTOCOL_TEMPLATES[pt].steps[i].questions[j].id :
              j \in 1..Len(PROTOCOL_TEMPLATES[pt].steps[i].questions) } :
          i \in 1..Len(PROTOCOL_TEMPLATES[pt].steps) }

\* ids that are the id of no question of any template
UnrecognizedIds ==
  {"orientation_check_knows", "pain_duration_more_than", "pain_level_initial_8", "notes"}

UnrecognizedValues == {VStr("none"), VNum(30), VBool(TRUE)}

\* record_response stores the value under whatever id it is given
RecordUnrecognized ==
  \E question_id \in UnrecognizedIds :
    \E response \in UnrecognizedValues :
      /\ Cardinality((DOMAIN responses) \cup {question_id}) <= MaxResponses
      /\ record_response(question_id, response)

NextUnrecognized == RecordUnrecognized \/ RecordResponse \/ ProceedToNextStep

SpecUnrecognized == Init /\ [][NextUnrecognized]_vars

\* C13: recording a response under an id that is the id of no question of
\* the session's template changes neither has_critical_flags() nor
\* get_next_step() nor generate_action_plan().
C13_UnrecognizedIdIsIgnored ==
  [][(/\ op' = "record_response"
      /\ \E id \in (UnrecognizedIds \ TemplateQuestionIds(protocol_type)) \cap DOMAIN responses' :
            responses' = Put(responses, id, responses'[id]))
       => /\ has_critical_flags(protocol_type', current_step_number', responses') = CriticalFlags
          /\ get_next_step(protocol_type', current_step_number', responses') = NextStepNow
          /\ generate_action_plan(protocol_type', current_step_number', responses') = PlanNow]_vars

-----------------------------------------------------------------------------
(* A session whose caller records the answers that the action plans read,   *)
(* and one answer per protocol that a critical flag reads (specification    *)
(* SpecPlan).                                                               *)

PlanIds ==
  [pt \in ProtocolTypes |->
     CASE pt = "fall" -> {"pain_level_initial", "mobility_status", "severe_injury"}
       [] pt = "injury" -> {"pain_scale", "bleeding_severity", "breathing_status"}
       [] pt = "chest_pain" -> {"chest_pain_severity", "breathing_difficulty"}
       [] pt = "confusion" -> {"confusion_onset", "medication_changes", "physical_symptoms"}]

\* a scale holds a number or a text that is not one; a multiple-choice
\* question holds one of its options; a yes/no question a boolean or the
\* text of the answer
PlanAnswers(question_id) ==
  CASE question_id \in ScaleIds -> Answers(question_id)
    [] question_id = "bleeding_severity" ->
         {VStr("No bleeding"), VStr("Minor bleeding"), VStr("Moderate bleeding")}
    [] question_id = "confusion_onset" ->
         {VStr("Suddenly (minutes)"), VStr("Gradually (hours)")}
    [] question_id = "mobility_status" -> {VBool(TRUE), VBool(FALSE), VStr("No")}
    [] question_id = "medication_changes" -> {VBool(TRUE), VBool(FALSE), VStr("Yes")}
    [] OTHER -> {VBool(TRUE), VBool(FALSE)}

RecordPlanAnswer ==
  \E question_id \in PlanIds[protocol_type] :
    \E response \in PlanAnswers(question_id) :
      record_response(question_id, response)

NextPlan == RecordPlanAnswer \/ ProceedToNextStep

SpecPlan == Init /\ [][NextPlan]_vars

\* the pain value of the threshold tables: the recorded number, 0 when the
\* answer is missing or is not a number
PainOrZero(question_id) ==
  IF question_id \in DOMAIN responses /\ responses[question_id].t = "num"
  THEN responses[question_id].n ELSE 0

CannotMove == Get(responses, "mobility_status") \in {VBool(FALSE), VStr("no"), VStr("No")}

MedicationChanged ==
  Get(responses, "medication_changes") \in {VBool(TRUE), VStr("yes"), VStr("Yes")}

ThresholdTableRow ==
  CASE protocol_type = "fall" ->
         IF PainOrZero("pain_level_initial") >= 6 \/ CannotMove
         THEN << "urgent_care", 7 >> ELSE << "monitor", 4 >>
    [] protocol_type = "injury" ->
         IF PainOrZero("pain_scale") >= 7
            \/ Get(responses, "bleeding_severity") = VStr("Moderate bleeding")
         THEN << "urgent_care", 6 >> ELSE << "monitor", 3 >>
    [] protocol_type = "confusion" ->
         IF Get(responses, "confusion_onset") = VStr("Suddenly (minutes)") \/ MedicationChanged
         THEN << "urgent_care", 7 >> ELSE << "nurse_line", 5 >>
    [] OTHER -> << "urgent_care", 8 >>

\* C14: when no critical flag fires at the current step, the plan of a
\* fall, injury or confusion session is the row of its threshold table:
\* fall: pain >= 6 or cannot move => urgent care / 7, else monitor / 4;
\* injury: pain >= 7 or moderate bleeding => urgent care / 6, else
\* monitor / 3; confusion: sudden onset or medication change => urgent
\* care / 7, else nurse line / 5; a missing or non-numeric pain is 0.
C14_PlanFollowsThresholdTable ==
  (protocol_type # "chest_pain" /\ ~CriticalFlags.value)
    => << PlanNow.recommendation, PlanNow.urgencyLevel >> = ThresholdTableRow

\* an injury session without a critical flag, pain 7 and no moderate
\* bleeding: the row is decided by the pain threshold alone
C14_Witness ==
  /\ protocol_type = "injury"
  /\ op = "record_response"
  /\ ~CriticalFlags.value
  /\ Get(responses, "pain_scale") = VNum(7)
  /\ Get(responses, "bleeding_severity") = VStr("Minor bleeding")
  /\ PlanNow.recommendation = "urgent_care"
  /\ PlanNow.urgencyLevel = 6

-----------------------------------------------------------------------------
(* Chest pain (specification Spec).                                         *)

\* C15: the plan of a chest pain session never recommends monitoring or the
\* nurse line and never has an urgency below 8: it is urgent care / 8 when
\* no critical flag fires at the current step, call 911 / 10 otherwise.
C15_ChestPainIsNeverDowngraded ==
  protocol_type = "chest_pain"
    => /\ PlanNow.recommendation \notin {"monitor", "nurse_line"}
       /\ PlanNow.urgencyLevel >= 8
       /\ << PlanNow.recommendation, PlanNow.urgencyLevel >> =
            IF CriticalFlags.value THEN << "call_911", 10 >> ELSE << "urgent_care", 8 >>

\* a chest pain session that has advanced with a low pain severity recorded
\* and no critical flag
C15_Witness ==
  /\ protocol_type = "chest_pain"
  /\ op = "proceed_to_next_step"
  /\ current_step_number >= 2
  /\ Get(responses, "chest_pain_severity") = VNum(1)
  /\ ~CriticalFlags.value
  /\ PlanNow.recommendation = "urgent_care"

-----------------------------------------------------------------------------
(* A session whose caller answers the questions of any step of the          *)
(* template, in any order (specification SpecValidate).                     *)

\* at most this many distinct questions are answered
MaxAnswered == 4

\* a value that no flag and no transition of the templates reacts to
NeutralAnswer == VNum(2)

RecordAnyAnswer ==
  \E question_id \in TemplateQuestionIds(protocol_type) :
    /\ Cardinality((DOMAIN responses) \cup {question_id}) <= MaxAnswered
    /\ record_response(question_id, NeutralAnswer)

NextValidate == RecordAnyAnswer \/ ProceedToNextStep

SpecValidate == Init /\ [][NextValidate]_vars

ValidationNow == validate_current_step(protocol_type, current_step_number, responses)

CurrentQuestions == find_step_by_number(protocol_type, current_step_number).questions

\* positions of the required questions of the current step without a response
MissingRequired ==
  { j \in 1..Len(CurrentQuestions) :
      CurrentQuestions[j].required /\ CurrentQuestions[j].id \notin DOMAIN responses }

\* C16: validate_current_step returns (true, []) iff every required
\* question of the current step has a key in the responses; otherwise it
\* returns false with exactly the texts of the missing required questions,
\* in question order; responses to questions of other steps and unanswered
\* optional questions do not count.
C16_ValidationReportsMissingRequired ==
  /\ ValidationNow.valid = (MissingRequired = {})
  /\ ValidationNow.valid => ValidationNow.missing = << >>
  /\ Len(ValidationNow.missing) = Cardinality(MissingRequired)
  /\ \A j \in MissingRequired :
        ValidationNow.missing[Cardinality({ i \in MissingRequired : i <= j })]
          = CurrentQuestions[j].text

\* two or more required questions of the current step are missing while a
\* question of another step is answered
C16_Witness ==
  /\ op = "record_response"
  /\ Cardinality(MissingRequired) >= 2
  /\ ~ValidationNow.valid
  /\ \E id \in DOMAIN responses :
        \A j \in 1..Len(CurrentQuestions) : CurrentQuestions[j].id # id

-----------------------------------------------------------------------------
(* The task-assignment scorer.  A score is a Python float; the model keeps  *)
(* it as the exact fraction num/den, so that (matches / len) * 100 and the  *)
(* weighted sum are computed without rounding.                              *)

Fraction(num, den) == [num |-> num, den |-> den]

Whole(n) == Fraction(n, 1)

\* a == b and a >= b on floats
SameScore(a, b) == a.num * b.den = b.num * a.den

AtLeast(a, b) == a.num * b.den >= b.num * a.den

\* abs(n)
Abs(n) == IF n < 0 THEN 0 - n ELSE n

\* the elements of a list
Elements(list) == { list[i] : i \in 1..Len(list) }

\* hash_val = abs(hash(member_zip + elder_zip)); distance = (hash_val % 100) / 10.0;
\* member_zip + elder_zip raises TypeError when the zip code is not a str,
\* and any exception gives the neutral 50.0
calculate_proximity_score(member_zip, elder_zip) ==
  IF member_zip.t # "str" THEN Whole(50)
  ELSE LET hash_val == Abs(zip_hash[member_zip.s \o elder_zip])
           tenths == hash_val % 100  \* distance * 10
       IN  IF tenths < 10 THEN Whole(100)
           ELSE IF tenths < 50 THEN Whole(80)
           ELSE IF tenths < 100 THEN Whole(60)
           ELSE IF tenths < 250 THEN Whole(40)
           ELSE Whole(20)

\* calculate_skill_match_score that divides by the number of skills the
\* member lists
calculate_skill_match_score_over_member_skills(required_skills, member_skills) ==
  IF Len(required_skills) = 0 THEN Whole(50)
  ELSE IF Len(member_skills) = 0 THEN Whole(20)
  ELSE LET matches == Cardinality({ i \in 1..Len(required_skills) :
                                      required_skills[i] \in Elements(member_skills) })
       IN  Fraction(matches * 100, Len(member_skills))

calculate_skill_match_score(required_skills, member_skills) ==
  IF Len(required_skills) = 0 THEN Whole(50)
  ELSE IF Len(member_skills) = 0 THEN Whole(20)
  ELSE LET matches == Cardinality({ i \in 1..Len(required_skills) :
                                      required_skills[i] \in Elements(member_skills) })
       IN  Fraction(matches * 100, Len(required_skills))

\* calculate_availability_score that does not look at the urgency
calculate_availability_score_urgency_blind(availability, urgency) ==
  CASE availability = "flexible" -> Whole(100)
    [] availability = "weekends" -> Whole(70)
    [] availability = "limited" -> Whole(50)
    [] OTHER -> Whole(50)

calculate_availability_score(availability, urgency) ==
  CASE availability = "flexible" -> Whole(100)
    [] availability = "weekends" -> (IF urgency # "urgent" THEN Whole(70) ELSE Whole(30))
    [] availability = "limited" -> (IF urgency = "low" THEN Whole(50) ELSE Whole(20))
    [] OTHER -> Whole(50)

\* outcome of the query for the pending and inProgress tasks of a member
Items(n) == [ok |-> TRUE, count |-> n]
QueryRaises == [ok |-> FALSE, count |-> 0]

calculate_workload_score(member_id) ==
  LET response == active_tasks[member_id]
  IN  IF ~response.ok THEN Whole(50)
      ELSE IF response.count = 0 THEN Whole(100)
      ELSE IF response.count = 1 THEN Whole(80)
      ELSE IF response.count = 2 THEN Whole(60)
      ELSE IF response.count = 3 THEN Whole(40)
      ELSE Whole(20)

\* the weighted sum, as a fraction of denominator 100 * (the denominators)
WeightedSum(p, s, a, w, wp, ws, wa, ww) ==
  LET den == p.den * s.den * a.den * w.den
  IN  Fraction(wp * p.num * (den \div p.den) + ws * s.num * (den \div s.den)
                 + wa * a.num * (den \div a.den) + ww * w.num * (den \div w.den),
               100 * den)

\* the composite with weights that do not add up to 1
composite_score_overweighted(proximity_score, skill_score, availability_score, workload_score) ==
  WeightedSum(proximity_score, skill_score, availability_score, workload_score,
              40, 40, 20, 20)

\* weights 0.30, 0.30, 0.20, 0.20
composite_score(proximity_score, skill_score, availability_score, workload_score) ==
  WeightedSum(proximity_score, skill_score, availability_score, workload_score,
              30, 30, 20, 20)

\* the entry appended for one member
ScoredMember(t, member) ==
  LET proximity_score == calculate_proximity_score(member.zipcode, t.elder_zipcode)
      skill_score == calculate_skill_match_score(t.required_skills, member.skills)
      availability_score == calculate_availability_score(member.availability, t.urgency)
      workload_score == calculate_workload_score(member.member_id)
  IN  [member |-> member,
       scores |-> [proximity |-> proximity_score,
                   skill |-> skill_score,
                   availability |-> availability_score,
                   workload |-> workload_score,
                   composite |-> composite_score(proximity_score, skill_score,
                                                 availability_score, workload_score)]]

\* a descending sort in which equal composites come out in reverse order
\* (an ascending stable sort, reversed)
sort_by_composite_reversing_ties(entries) ==
  LET n == Len(entries)
      Position(i) ==
        1 + Cardinality({ j \in 1..n : /\ AtLeast(entries[j].scores.composite, entries[i].scores.composite)
                                       /\ ~SameScore(entries[j].scores.composite, entries[i].scores.composite) })
          + Cardinality({ j \in (i + 1)..n :
                            SameScore(entries[j].scores.composite, entries[i].scores.composite) })
  IN  [k \in 1..n |-> entries[CHOOSE i \in 1..n : Position(i) = k]]

\* scored_members.sort(key=composite, reverse=True): the sort is stable, and
\* reverse=True keeps equal keys in their original order
sort_by_composite(entries) ==
  LET n == Len(entries)
      Position(i) ==
        1 + Cardinality({ j \in 1..n : /\ AtLeast(entries[j].scores.composite, entries[i].scores.composite)
                                       /\ ~SameScore(entries[j].scores.composite, entries[i].scores.composite) })
          + Cardinality({ j \in 1..(i - 1) :
                            SameScore(entries[j].scores.composite, entries[i].scores.composite) })
  IN  [k \in 1..n |-> entries[CHOOSE i \in 1..n : Position(i) = k]]

multi_agent_scoring(t, ms) ==
  sort_by_composite([i \in 1..Len(ms) |-> ScoredMember(t, ms[i])])

-----------------------------------------------------------------------------
(* The scorer applied to a task and a list of family members (specification *)
(* SpecScore).                                                              *)

\* at most this many family members
MaxMembers == 3

\* required_skills: a list without repetitions, of the skills the handler
\* requires
RequiredSkillLists ==
  {<< >>, << "Medical/Healthcare" >>, << "Emotional Support" >>,
   << "Medical/Healthcare", "Emotional Support" >>}

Urgencies == {"urgent", "medium", "low"}

\* elder_zipcode of the task the handler builds
ElderZip == "10001"

ZipCodes == {"10001", "94105"}

\* values of hash(): a distance below 1, of exactly 1, and of exactly 5
HashSamples == {9, 0 - 110, 250}

\* what a family member item holds, with the outcome of its active-task query
Profile(zipcode, skills, availability, response) ==
  [zipcode |-> zipcode, skills |-> skills, availability |-> availability,
   response |-> response]

CandidateProfiles ==
  { Profile(VStr("10001"), << "Medical/Healthcare", "Emotional Support" >>, "flexible", Items(0)),
    Profile(VStr("94105"), << "Medical/Healthcare" >>, "weekends", Items(1)),
    Profile(VStr("10001"), << >>, "limited", Items(3)),
    Profile(VStr("94105"), << "Emotional Support" >>, "evenings", Items(4)),
    Profile(VNum(10001), << "Emotional Support", "Emotional Support" >>, "weekends", Items(2)),
    Profile(VStr("94105"), << "Medical/Healthcare" >>, "limited", QueryRaises) }

MemberId(i) == "m" \o StrOfNat(i)

InitScore ==
  \E n \in 1..MaxMembers :
    \E profiles \in [1..n -> CandidateProfiles] :
      \E required_skills \in RequiredSkillLists :
        \E urgency \in Urgencies :
          \E h \in [{ z \o ElderZip : z \in ZipCodes } -> HashSamples] :
            /\ protocol_type = "fall"
            /\ current_step_number = 1
            /\ responses = EmptyDict
            /\ op = "init"
            /\ next_step = NoResult
            /\ returned = NoResult
            /\ condition = ""
            /\ evaluated = NotEvaluated
            /\ task = [required_skills |-> required_skills, urgency |-> urgency,
                       elder_zipcode |-> ElderZip]
            /\ members = [i \in 1..n |->
                            [member_id |-> MemberId(i),
                             zipcode |-> profiles[i].zipcode,
                             skills |-> profiles[i].skills,
                             availability |-> profiles[i].availability]]
            /\ zip_hash = h
            /\ active_tasks = [m \in { MemberId(i) : i \in 1..n } |->
                                 profiles[CHOOSE i \in 1..n : MemberId(i) = m].response]
            /\ scored_members = << >>
            /\ NothingElse

\* a call of multi_agent_scoring(task, members)
MultiAgentScoring ==
  /\ op = "init"
  /\ scored_members' = multi_agent_scoring(task, members)
  /\ op' = "multi_agent_scoring"
  /\ UNCHANGED << protocol_type, current_step_number, responses, next_step, returned,
                  condition, evaluated, task, members, zip_hash, active_tasks,
                  outcome_vars, sessions_vars, handler_vars >>

\* a second call with the same task and the same list
MultiAgentScoringAgain ==
  /\ op = "multi_agent_scoring"
  /\ scored_members' = multi_agent_scoring(task, members)
  /\ op' = "multi_agent_scoring_again"
  /\ UNCHANGED << protocol_type, current_step_number, responses, next_step, returned,
                  condition, evaluated, task, members, zip_hash, active_tasks,
                  outcome_vars, sessions_vars, handler_vars >>

NextScore == MultiAgentScoring \/ MultiAgentScoringAgain

SpecScore == InitScore /\ [][NextScore]_vars

Scored == op \in {"multi_agent_scoring", "multi_agent_scoring_again"}

-----------------------------------------------------------------------------
(* Properties of the scorer (specification SpecScore).                      *)

InRange(score) == 0 <= score.num /\ score.num <= 100 * score.den

\* C17: the composite of every scored member is 0.30 * proximity +
\* 0.30 * skill + 0.20 * availability + 0.20 * workload of the sub-scores of
\* that member, every sub-score lies in [0, 100] and so does the composite.
C17_CompositeIsWeightedSum ==
  Scored =>
    \A k \in 1..Len(scored_members) :
      LET member == scored_members[k].member
          scores == scored_members[k].scores
          p == calculate_proximity_score(member.zipcode, task.elder_zipcode)
          sk == calculate_skill_match_score(task.required_skills, member.skills)
          a == calculate_availability_score(member.availability, task.urgency)
          w == calculate_workload_score(member.member_id)
          den == p.den * sk.den * a.den * w.den
      IN  /\ scores.proximity = p /\ scores.skill = sk
          /\ scores.availability = a /\ scores.workload = w
          /\ InRange(p) /\ InRange(sk) /\ InRange(a) /\ InRange(w)
          /\ InRange(scores.composite)
          /\ scores.composite.num * 100 * den =
               scores.composite.den
                 * (30 * p.num * (den \div p.den) + 30 * sk.num * (den \div sk.den)
                      + 20 * a.num * (den \div a.den) + 20 * w.num * (den \div w.den))

\* a member with every sub-score at 100 has been scored: the composite is 100
C17_Witness ==
  /\ Scored
  /\ \E k \in 1..Len(scored_members) :
       /\ scored_members[k].scores.proximity = Whole(100)
       /\ SameScore(scored_members[k].scores.skill, Whole(100))
       /\ scored_members[k].scores.availability = Whole(100)
       /\ scored_members[k].scores.workload = Whole(100)
       /\ SameScore(scored_members[k].scores.composite, Whole(100))

\* C18: the result holds every input member exactly once, in non-increasing
\* order of composite, members of equal composite in their input order; and
\* scoring the same list again gives the same result.
C18_SortedStablePermutation ==
  /\ [](Scored =>
          /\ Len(scored_members) = Len(members)
          /\ \A i \in 1..Len(members) :
               Cardinality({ k \in 1..Len(scored_members) :
                               scored_members[k].member = members[i] }) = 1
          /\ \A k \in 1..(Len(scored_members) - 1) :
               /\ AtLeast(scored_members[k].scores.composite,
                          scored_members[k + 1].scores.composite)
               /\ SameScore(scored_members[k].scores.composite,
                            scored_members[k + 1].scores.composite)
                    => \E i, j \in 1..Len(members) :
                         /\ i < j
                         /\ members[i] = scored_members[k].member
                         /\ members[j] = scored_members[k + 1].member)
  /\ [][op' = "multi_agent_scoring_again" => scored_members' = scored_members]_vars

\* three members scored twice: the last input member comes first, the other
\* two have equal composites
C18_Witness ==
  /\ op = "multi_agent_scoring_again"
  /\ Len(scored_members) = 3
  /\ scored_members[1].member = members[3]
  /\ SameScore(scored_members[2].scores.composite, scored_members[3].scores.composite)
  /\ ~SameScore(scored_members[1].scores.composite, scored_members[2].scores.composite)

\* C19: the skill sub-score is 50 when the task requires no skills, 20 when
\* it requires some and the member lists none, and otherwise
\* 100 * |required /\ member's| / |required|.
C19_SkillScore ==
  Scored =>
    \A k \in 1..Len(scored_members) :
      LET required == Elements(task.required_skills)
          candidate == Elements(scored_members[k].member.skills)
          skill == scored_members[k].scores.skill
      IN  IF required = {} THEN SameScore(skill, Whole(50))
          ELSE IF candidate = {} THEN SameScore(skill, Whole(20))
          ELSE skill.num * Cardinality(required)
                 = 100 * Cardinality(required \cap candidate) * skill.den

\* two skills are required and a scored member lists one of them: 50
C19_Witness ==
  /\ Scored
  /\ Len(task.required_skills) = 2
  /\ \E k \in 1..Len(scored_members) :
       /\ Cardinality(Elements(scored_members[k].member.skills)) = 1
       /\ SameScore(scored_members[k].scores.skill, Whole(50))

\* C20: the availability sub-score is 100 for flexible at every urgency; for
\* weekends 30 when the task is urgent and 70 otherwise; for limited 50 when
\* the urgency is low and 20 otherwise; 50 for any other availability.
C20_AvailabilityScore ==
  Scored =>
    \A k \in 1..Len(scored_members) :
      LET availability == scored_members[k].member.availability
          score == scored_members[k].scores.availability
      IN  /\ availability = "flexible" => score = Whole(100)
          /\ availability = "weekends" =>
               score = IF task.urgency = "urgent" THEN Whole(30) ELSE Whole(70)
          /\ availability = "limited" =>
               score = IF task.urgency = "low" THEN Whole(50) ELSE Whole(20)
          /\ availability \notin {"flexible", "weekends", "limited"} => score = Whole(50)

\* an urgent task scored for a member available at weekends: 30
C20_Witness ==
  /\ Scored
  /\ task.urgency = "urgent"
  /\ \E k \in 1..Len(scored_members) :
       /\ scored_members[k].member.availability = "weekends"
       /\ scored_members[k].scores.availability = Whole(30)

-----------------------------------------------------------------------------
(* The outcome capture service.  Hours are fractions (0.5 hours occurs);    *)
(* a time is a number of minutes.                                           *)

FollowUpRule(outcome_condition, follow_up_task_template, due_in_hours) ==
  [outcome_condition |-> outcome_condition,
   follow_up_task_template |-> follow_up_task_template,
   due_in_hours |-> due_in_hours]

\* the fields of a task template that tell the templates apart
TaskTemplate(title, priority, estimatedMinutes, dueInHours) ==
  [title |-> title, priority |-> priority, estimatedMinutes |-> estimatedMinutes,
   dueInHours |-> dueInHours]

create_medication_template ==
  [template_type |-> "medication",
   outcome_options |-> <<
      "All doses verified and taken",
      "Some doses missed",
      "Doses refused",
      "Unable to verify",
      "Medication not available" >>,
   follow_up_rules |-> <<
      FollowUpRule("Some doses missed",
        TaskTemplate("Follow up on missed medication doses",
          "high", 15, Fraction(4, 1)),
        Fraction(4, 1)),
      FollowUpRule("Doses refused",
        TaskTemplate("Investigate medication refusal",
          "high", 20, Fraction(2, 1)),
        Fraction(2, 1)),
      FollowUpRule("Unable to verify",
        TaskTemplate("Escalate medication verification issue",
          "urgent", 10, Fraction(1, 1)),
        Fraction(1, 1)) >>]

create_safety_template ==
  [template_type |-> "safety",
   outcome_options |-> <<
      "All safety checks passed",
      "Minor safety issues found",
      "Major safety concerns identified",
      "Immediate intervention required" >>,
   follow_up_rules |-> <<
      FollowUpRule("Minor safety issues found",
        TaskTemplate("Address minor safety issues",
          "medium", 30, Fraction(24, 1)),
        Fraction(24, 1)),
      FollowUpRule("Major safety concerns identified",
        TaskTemplate("Address major safety concerns",
          "urgent", 60, Fraction(2, 1)),
        Fraction(2, 1)),
      FollowUpRule("Immediate intervention required",
        TaskTemplate("Emergency safety intervention",
          "urgent", 15, Fraction(1, 2)),
        Fraction(1, 2)) >>]

create_appointment_template ==
  [template_type |-> "appointment",
   outcome_options |-> <<
      "Appointment completed successfully",
      "Appointment rescheduled",
      "Appointment cancelled",
      "Elder refused to attend",
      "Transportation issue" >>,
   follow_up_rules |-> <<
      FollowUpRule("Appointment completed successfully",
        TaskTemplate("Document appointment results",
          "medium", 20, Fraction(4, 1)),
        Fraction(4, 1)),
      FollowUpRule("Appointment rescheduled",
        TaskTemplate("Confirm rescheduled appointment",
          "medium", 10, Fraction(24, 1)),
        Fraction(24, 1)),
      FollowUpRule("Elder refused to attend",
        TaskTemplate("Follow up on appointment refusal",
          "high", 20, Fraction(4, 1)),
        Fraction(4, 1)) >>]

create_general_template ==
  [template_type |-> "general",
   outcome_options |-> <<
      "Completed successfully",
      "Partially completed",
      "Not completed",
      "Escalated" >>,
   follow_up_rules |-> <<
      FollowUpRule("Partially completed",
        TaskTemplate("Complete remaining task items",
          "medium", 30, Fraction(24, 1)),
        Fraction(24, 1)),
      FollowUpRule("Not completed",
        TaskTemplate("Retry incomplete task",
          "high", 30, Fraction(12, 1)),
        Fraction(12, 1)),
      FollowUpRule("Escalated",
        TaskTemplate("Handle escalated task",
          "urgent", 20, Fraction(2, 1)),
        Fraction(2, 1)) >>]

OutcomeTemplateTypes == {"medication", "safety", "appointment", "general"}

OUTCOME_TEMPLATES ==
  [tt \in OutcomeTemplateTypes |->
     CASE tt = "medication" -> create_medication_template
       [] tt = "safety" -> create_safety_template
       [] tt = "appointment" -> create_appointment_template
       [] tt = "general" -> create_general_template]

\* get_outcome_template returns None for a value that OutcomeTemplateType
\* does not have
NoTemplate == [template_type |-> "", outcome_options |-> << >>, follow_up_rules |-> << >>]

get_outcome_template(template_type) ==
  IF template_type \in OutcomeTemplateTypes THEN OUTCOME_TEMPLATES[template_type]
  ELSE NoTemplate

evaluate_outcome_condition(condition_, outcome) == condition_ = outcome

\* a follow-up is due for every outcome but the first option of the template
should_generate_follow_up_unless_first_option(template, outcome) ==
  outcome # template.outcome_options[1]

should_generate_follow_up(template, outcome) ==
  \E i \in 1..Len(template.follow_up_rules) :
    evaluate_outcome_condition(template.follow_up_rules[i].outcome_condition, outcome)

\* Optional[str]: an ISO time, kept as minutes, or None
CheckInAt(minutes) == [set |-> TRUE, minutes |-> minutes]
NoCheckIn == [set |-> FALSE, minutes |-> 0]

\* for rule in template.follow_up_rules: the first matching rule decides
RECURSIVE NextCheckInOf(_, _, _)
NextCheckInOf(rules, outcome, now) ==
  IF Len(rules) = 0 THEN NoCheckIn
  ELSE IF evaluate_outcome_condition(rules[1].outcome_condition, outcome)
       THEN CheckInAt(now + (60 * rules[1].due_in_hours.num) \div rules[1].due_in_hours.den)
       ELSE NextCheckInOf(Tail(rules), outcome, now)

calculate_next_check_in(template, outcome, now) ==
  NextCheckInOf(template.follow_up_rules, outcome, now)

CaptureResult(success, errors, outcome) ==
  [called |-> TRUE, success |-> success, errors |-> errors, outcome |-> outcome]

\* capture_outcome that does not validate the outcome selection
capture_outcome_unvalidated(template_type, outcome, notes, now) ==
  LET template == get_outcome_template(template_type)
  IN  IF template = NoTemplate
      THEN CaptureResult(FALSE, << "Invalid outcome template type" >>, << >>)
      ELSE CaptureResult(TRUE, << >>,
             << [actionTaken |-> outcome,
                 emergencyServicesCalled |-> FALSE,
                 notes |-> notes,
                 followUpRequired |-> should_generate_follow_up(template, outcome),
                 nextCheckIn |-> calculate_next_check_in(template, outcome, now)] >>)

\* the third component is the captured outcome: << >> stands for None
capture_outcome(template_type, outcome, notes, now) ==
  LET template == get_outcome_template(template_type)
  IN  IF template = NoTemplate
      THEN CaptureResult(FALSE, << "Invalid outcome template type" >>, << >>)
      ELSE IF outcome \notin Elements(template.outcome_options)
      THEN CaptureResult(FALSE, << "Invalid outcome: " \o outcome >>, << >>)
      ELSE CaptureResult(TRUE, << >>,
             << [actionTaken |-> outcome,
                 emergencyServicesCalled |-> FALSE,
                 notes |-> notes,
                 followUpRequired |-> should_generate_follow_up(template, outcome),
                 nextCheckIn |-> calculate_next_check_in(template, outcome, now)] >>)

\* for rule in template.follow_up_rules: append the template of each match
RECURSIVE FollowUpTasksOf(_, _)
FollowUpTasksOf(rules, outcome) ==
  IF Len(rules) = 0 THEN << >>
  ELSE (IF evaluate_outcome_condition(rules[1].outcome_condition, outcome)
        THEN << rules[1].follow_up_task_template >> ELSE << >>)
       \o FollowUpTasksOf(Tail(rules), outcome)

\* generate_follow_up_tasks that emits the template of every rule once the
\* outcome is an option of the template
generate_follow_up_tasks_unfiltered(template_type, outcome) ==
  LET template == get_outcome_template(template_type)
  IN  IF template = NoTemplate THEN << >>
      ELSE IF outcome \in Elements(template.outcome_options)
      THEN [i \in 1..Len(template.follow_up_rules) |->
              template.follow_up_rules[i].follow_up_task_template]
      ELSE << >>

generate_follow_up_tasks(template_type, outcome) ==
  LET template == get_outcome_template(template_type)
  IN  IF template = NoTemplate THEN << >>
      ELSE FollowUpTasksOf(template.follow_up_rules, outcome)

-----------------------------------------------------------------------------
(* The outcome capture service applied to a request (specification          *)
(* SpecOutcome).                                                            *)

\* template types a caller may send: the registered ones and others
RequestedTypes == OutcomeTemplateTypes \cup {"bogus", "Medication"}

\* outcomes a caller may send: every option of every template and others
RequestedOutcomes ==
  UNION { Elements(OUTCOME_TEMPLATES[tt].outcome_options) : tt \in OutcomeTemplateTypes }
    \cup {"Not a real option", "", "some doses missed"}

\* readings of the clock, in minutes
Clock == {0, 1000}

InitOutcome ==
  \E template_type \in RequestedTypes :
    \E outcome \in RequestedOutcomes :
      \E notes \in {"", "called the elder"} :
        \E now \in Clock :
          /\ protocol_type = "fall"
          /\ current_step_number = 1
          /\ responses = EmptyDict
          /\ op = "init"
          /\ next_step = NoResult
          /\ returned = NoResult
          /\ condition = ""
          /\ evaluated = NotEvaluated
          /\ task = NoTask
          /\ members = << >>
          /\ zip_hash = [z \in {} |-> 0]
          /\ active_tasks = [m \in {} |-> 0]
          /\ scored_members = << >>
          /\ capture_request = [template_type |-> template_type, outcome |-> outcome,
                                notes |-> notes, now |-> now]
          /\ captured = [called |-> FALSE, success |-> FALSE, errors |-> << >>,
                         outcome |-> << >>]
          /\ follow_up_tasks = [called |-> FALSE, tasks |-> << >>]
          /\ sessions = [a \in {} |-> 0]
          /\ alone = [a \in {} |-> 0]
          /\ operated = ""
          /\ event = [alert_type |-> "", urgency |-> ""]
          /\ existing_alerts = << >>
          /\ llm_reply = [kind |-> "none", recommended_member |-> 0]
          /\ writes = << >>
          /\ handler_response = [statusCode |-> 0, skipped |-> FALSE]

\* a call of capture_outcome(task_id, template_type, outcome, notes)
CaptureOutcome ==
  /\ ~captured.called
  /\ captured' = capture_outcome(capture_request.template_type, capture_request.outcome,
                                 capture_request.notes, capture_request.now)
  /\ op' = "capture_outcome"
  /\ UNCHANGED << protocol_type, current_step_number, responses, next_step, returned,
                  condition, evaluated, scorer_vars, capture_request, follow_up_tasks,
                  sessions_vars, handler_vars >>

\* a call of generate_follow_up_tasks(template_type, outcome)
GenerateFollowUpTasks ==
  /\ ~follow_up_tasks.called
  /\ follow_up_tasks' =
       [called |-> TRUE,
        tasks |-> generate_follow_up_tasks(capture_request.template_type,
                                           capture_request.outcome)]
  /\ op' = "generate_follow_up_tasks"
  /\ UNCHANGED << protocol_type, current_step_number, responses, next_step, returned,
                  condition, evaluated, scorer_vars, capture_request, captured,
                  sessions_vars, handler_vars >>

NextOutcome == CaptureOutcome \/ GenerateFollowUpTasks

SpecOutcome == InitOutcome /\ [][NextOutcome]_vars

\* the rules of the requested template (none if the type is not registered)
RequestedRules == get_outcome_template(capture_request.template_type).follow_up_rules

\* positions of the rules whose condition is the requested outcome
MatchingRules ==
  { i \in 1..Len(RequestedRules) :
      RequestedRules[i].outcome_condition = capture_request.outcome }

\* C21: capture_outcome succeeds iff the template type is registered and
\* the outcome is one of the outcome options of that template; otherwise it
\* returns success false with a non-empty error list and no captured outcome.
C21_CaptureValidatesOutcome ==
  captured.called =>
    /\ captured.success =
         (/\ capture_request.template_type \in OutcomeTemplateTypes
          /\ capture_request.outcome \in
               Elements(OUTCOME_TEMPLATES[capture_request.template_type].outcome_options))
    /\ captured.success =>
         /\ captured.errors = << >>
         /\ Len(captured.outcome) = 1
         /\ captured.outcome[1].actionTaken = capture_request.outcome
    /\ ~captured.success => (Len(captured.errors) > 0 /\ captured.outcome = << >>)

\* an option of another template is rejected by a registered template
C21_Witness ==
  /\ captured.called
  /\ ~captured.success
  /\ capture_request.template_type = "safety"
  /\ capture_request.outcome = "Some doses missed"
  /\ Len(captured.errors) = 1

\* C22: for every successful capture, followUpRequired holds iff a rule of
\* the template has the outcome as its condition, iff nextCheckIn is not
\* null, iff generate_follow_up_tasks for the same template and outcome is
\* not empty; nextCheckIn is then now plus the due hours of the first
\* matching rule.
C22_FollowUpIffRuleMatches ==
  (captured.called /\ captured.success) =>
    LET outcome == captured.outcome[1]
        first == CHOOSE i \in MatchingRules : \A j \in MatchingRules : i <= j
    IN  /\ outcome.followUpRequired = (MatchingRules # {})
        /\ outcome.nextCheckIn.set = (MatchingRules # {})
        /\ (Len(generate_follow_up_tasks(capture_request.template_type,
                                         capture_request.outcome)) > 0)
             = (MatchingRules # {})
        /\ follow_up_tasks.called => (Len(follow_up_tasks.tasks) > 0) = (MatchingRules # {})
        /\ MatchingRules # {} =>
             outcome.nextCheckIn.minutes * RequestedRules[first].due_in_hours.den
               = capture_request.now * RequestedRules[first].due_in_hours.den
                   + 60 * RequestedRules[first].due_in_hours.num

\* the half-hour rule of the safety template: the check-in is 30 minutes on
C22_Witness ==
  /\ captured.called /\ captured.success /\ follow_up_tasks.called
  /\ capture_request.outcome = "Immediate intervention required"
  /\ captured.outcome[1].followUpRequired
  /\ captured.outcome[1].nextCheckIn = CheckInAt(capture_request.now + 30)

\* C23: generate_follow_up_tasks returns exactly the task templates of the
\* rules whose condition equals the outcome, in rule order; in the four
\* registered templates every rule's condition is an outcome option and no
\* two rules share a condition, so the result has at most one task.
C23_FollowUpTasksAreTheMatchingRules ==
  /\ \A tt \in OutcomeTemplateTypes :
       LET rules == OUTCOME_TEMPLATES[tt].follow_up_rules
       IN  /\ \A i \in 1..Len(rules) :
                rules[i].outcome_condition \in Elements(OUTCOME_TEMPLATES[tt].outcome_options)
           /\ \A i, j \in 1..Len(rules) :
                rules[i].outcome_condition = rules[j].outcome_condition => i = j
  /\ follow_up_tasks.called =>
       /\ Len(follow_up_tasks.tasks) = Cardinality(MatchingRules)
       /\ Len(follow_up_tasks.tasks) <= 1
       /\ \A i \in MatchingRules :
            follow_up_tasks.tasks[Cardinality({ j \in MatchingRules : j <= i })]
              = RequestedRules[i].follow_up_task_template

\* the follow-ups of "Not completed" of the general template: one task
C23_Witness ==
  /\ follow_up_tasks.called
  /\ capture_request.template_type = "general"
  /\ capture_request.outcome = "Not completed"
  /\ Len(follow_up_tasks.tasks) = 1
  /\ follow_up_tasks.tasks[1].title = RequestedRules[2].follow_up_task_template.title

-----------------------------------------------------------------------------
(* Two triage sessions in one process (specification SpecSessions).  An     *)
(* instance holds references: its response map and its template are         *)
(* objects of the heap, and a method of one instance writes the objects     *)
(* that instance refers to.                                                 *)

AlertIds == {"alert-1", "alert-2"}

\* the position of an instance in the order of construction
InstanceNumber(alert_id) == IF alert_id = "alert-1" THEN 1 ELSE 2

\* a response map that is an attribute of the class: one object for all
NewResponsesOfClass(alert_id) == InstanceNumber("alert-1")

\* self.responses = {} in __init__: a new object for every instance
NewResponses(alert_id) == InstanceNumber(alert_id)

\* self.template = PROTOCOL_TEMPLATES[protocol_type](): the factory is
\* called, which builds a new object for every instance; no method writes
\* a template, so the object is kept as the key of the factory that built it
NewTemplate(alert_id) == InstanceNumber(alert_id)

\* TriageProtocolStateMachine(alert_id, protocol_type) for each alert id
NewMachines(pts) ==
  [machines |->
     [a \in AlertIds |->
        [protocol_type |-> pts[a], current_step_number |-> 1,
         responses |-> NewResponses(a), template |-> NewTemplate(a),
         returned |-> NoResult]],
   dicts |-> [r \in {NewResponses(a) : a \in AlertIds} |-> EmptyDict],
   templates |-> [r \in {NewTemplate(a) : a \in AlertIds} |->
                    LET a == CHOOSE b \in AlertIds : NewTemplate(b) = r
                    IN  pts[a]]]

\* what an instance is, its references followed
SessionOf(s, a) ==
  [protocol_type |-> s.machines[a].protocol_type,
   current_step_number |-> s.machines[a].current_step_number,
   responses |-> s.dicts[s.machines[a].responses],
   returned |-> s.machines[a].returned]

TemplateOf(s, a) == PROTOCOL_TEMPLATES[s.templates[s.machines[a].template]]

\* proceed_to_next_step once get_next_step has returned next: the new step
\* number and the value returned
Proceeded(session, next) ==
  IF next.kind = "step"
  THEN [session EXCEPT
          !.current_step_number = next.n,
          !.returned = IF find_step_by_number(session.protocol_type, next.n) # NoStep
                       THEN next ELSE Raised]
  ELSE [session EXCEPT !.returned = next]

\* proceed_to_next_step on a session given by value
ProceedToNextStepOf(session) ==
  Proceeded(session, get_next_step(session.protocol_type, session.current_step_number,
                                   session.responses))

\* record_response on a session given by value
RecordResponseOf(session, question_id, response) ==
  [session EXCEPT !.responses = Put(session.responses, question_id, response)]

\* the questions answered in the two sessions: those of step 1 and step 2
\* that the transitions out of these steps read
SessionAnswerIds ==
  [pt \in ProtocolTypes |->
     CASE pt = "fall" -> {"consciousness", "mobility_status"}
       [] pt = "injury" -> {"consciousness", "breathing_status"}
       [] pt = "chest_pain" -> {"consciousness", "breathing_difficulty"}
       [] pt = "confusion" -> {"responsiveness", "physical_symptoms"}]

\* the scenarios of the two sessions: the same one twice or two different
SessionProtocols == {"fall", "chest_pain"}

InitSessions ==
  \E pts \in [AlertIds -> SessionProtocols] :
    /\ protocol_type = "fall"
    /\ current_step_number = 1
    /\ responses = EmptyDict
    /\ op = "init"
    /\ next_step = NoResult
    /\ returned = NoResult
    /\ condition = ""
    /\ evaluated = NotEvaluated
    /\ task = NoTask
    /\ members = << >>
    /\ zip_hash = [z \in {} |-> 0]
    /\ active_tasks = [m \in {} |-> 0]
    /\ scored_members = << >>
    /\ capture_request = [template_type |-> "", outcome |-> "", notes |-> "", now |-> 0]
    /\ captured = [called |-> FALSE, success |-> FALSE, errors |-> << >>, outcome |-> << >>]
    /\ follow_up_tasks = [called |-> FALSE, tasks |-> << >>]
    /\ sessions = NewMachines(pts)
    /\ alone = [a \in AlertIds |->
                  [protocol_type |-> pts[a], current_step_number |-> 1,
                   responses |-> EmptyDict, returned |-> NoResult]]
    /\ operated = ""
    /\ event = [alert_type |-> "", urgency |-> ""]
    /\ existing_alerts = << >>
    /\ llm_reply = [kind |-> "none", recommended_member |-> 0]
    /\ writes = << >>
    /\ handler_response = [statusCode |-> 0, skipped |-> FALSE]

\* record_response called on the instance of alert a: self.responses[...] = ...
\* writes the object that the instance refers to
RecordResponseOn(a) ==
  \E question_id \in SessionAnswerIds[sessions.machines[a].protocol_type] :
    \E response \in {VBool(TRUE), VBool(FALSE)} :
      /\ sessions' = [sessions EXCEPT
                        !.dicts[sessions.machines[a].responses] =
                           Put(@, question_id, response)]
      /\ alone' = [alone EXCEPT ![a] = RecordResponseOf(@, question_id, response)]
      /\ operated' = a
      /\ op' = "record_response"
      /\ UNCHANGED << protocol_type, current_step_number, responses, next_step, returned,
                      condition, evaluated, scorer_vars, outcome_vars, handler_vars >>

\* the instance of alert a after proceed_to_next_step: the step number and
\* the result are the instance's own fields
Advanced(s, a, after) ==
  [s EXCEPT !.machines[a].current_step_number = after.current_step_number,
            !.machines[a].returned = after.returned]

\* proceed_to_next_step called on the instance of alert a
ProceedToNextStepOn(a) ==
  /\ sessions' = Advanced(sessions, a, ProceedToNextStepOf(SessionOf(sessions, a)))
  /\ alone' = [alone EXCEPT ![a] = ProceedToNextStepOf(alone[a])]
  /\ operated' = a
  /\ op' = "proceed_to_next_step"
  /\ UNCHANGED << protocol_type, current_step_number, responses, next_step, returned,
                  condition, evaluated, scorer_vars, outcome_vars, handler_vars >>

NextSessions == \E a \in AlertIds : RecordResponseOn(a) \/ ProceedToNextStepOn(a)

SpecSessions == InitSessions /\ [][NextSessions]_vars

\* C24: triage sessions are independent: under any interleaving of
\* record_response and proceed_to_next_step on two sessions with different
\* alert ids, the current step, the response map and the template of a
\* session are not changed by an operation on the other session, and each
\* session's state and results are those of its own operations run alone.
C24_SessionsAreIndependent ==
  /\ [](\A a \in AlertIds :
          /\ SessionOf(sessions, a) = alone[a]
          /\ TemplateOf(sessions, a) = PROTOCOL_TEMPLATES[alone[a].protocol_type])
  /\ [][\A a \in AlertIds :
          a # operated' =>
            /\ SessionOf(sessions', a) = SessionOf(sessions, a)
            /\ sessions'.templates[sessions'.machines[a].template]
                 = sessions.templates[sessions.machines[a].template]]_vars

\* two sessions of the same scenario that have diverged: one escalated at
\* step 1 on its own answer, the other advanced to step 2
C24_Witness ==
  /\ alone["alert-1"].protocol_type = "fall"
  /\ alone["alert-2"].protocol_type = "fall"
  /\ SessionOf(sessions, "alert-1").returned = Emergency
  /\ SessionOf(sessions, "alert-2").returned = StepNumber(2)
  /\ SessionOf(sessions, "alert-1").responses # SessionOf(sessions, "alert-2").responses
  /\ operated = "alert-2"

-----------------------------------------------------------------------------
(* The task-assignment handler (specification SpecHandler).                 *)

UpperCaseLetters == "ABCDEFGHIJKLMNOPQRSTUVWXYZ"
LowerCaseLetters == "abcdefghijklmnopqrstuvwxyz"

\* the lower-case letter of each upper-case letter
LowerCaseOf ==
  [c \in { SubSeq(UpperCaseLetters, i, i) : i \in 1..Len(UpperCaseLetters) } |->
     LET at == Find(UpperCaseLetters, c) IN SubSeq(LowerCaseLetters, at, at)]

\* str.lower() on the letters A-Z
RECURSIVE Lower(_)
Lower(s) ==
  IF Len(s) = 0 THEN ""
  ELSE LET c == SubSeq(s, 1, 1)
       IN  (IF c \in DOMAIN LowerCaseOf THEN LowerCaseOf[c] ELSE c)
             \o Lower(SubSeq(s, 2, Len(s)))

\* the names that lines 5-10 bind in the module: import json, os, logging,
\* from typing import Dict, Any, List, from datetime import datetime,
\* import boto3
ImportedNames == {"json", "os", "logging", "Dict", "Any", "List", "datetime", "boto3"}

\* an alert item of the family in the table; age in minutes before now
StoredAlert(alert_type, urgency, age) ==
  [alert_type |-> alert_type, urgency |-> urgency, age |-> age]

\* priority_rank.get(urgency, 1)
PriorityRank(urgency) ==
  CASE urgency = "urgent" -> 3
    [] urgency = "high" -> 2
    [] urgency = "medium" -> 1
    [] urgency = "low" -> 0
    [] OTHER -> 1

\* minutes=30 of the query's lower bound on the sort key
DuplicateWindow == 30

\* the loop over the alerts that the query returns (SK > ALERT#min_time)
SimilarAlertExists(alert_type, new_urgency, alerts) ==
  \E i \in 1..Len(alerts) :
    /\ alerts[i].age < DuplicateWindow
    /\ alerts[i].alert_type = alert_type
    /\ PriorityRank(alerts[i].urgency) >= PriorityRank(new_urgency)

\* line 329 evaluates the name timedelta inside the try block: the name is
\* not bound, the NameError is caught by except Exception, which returns
\* False
check_duplicate_alert(alert_type, new_urgency, alerts) ==
  IF "timedelta" \notin ImportedNames THEN FALSE
  ELSE SimilarAlertExists(alert_type, new_urgency, alerts)

\* what json.loads(content) gives: a dict with or without the key
\* recommended_member, or a value that is not a dict
Recommendation(n) == [is_object |-> TRUE, has_member |-> TRUE, recommended_member |-> n]
RecommendationWithoutMember == [is_object |-> TRUE, has_member |-> FALSE, recommended_member |-> 0]
NotAnObject == [is_object |-> FALSE, has_member |-> FALSE, recommended_member |-> 0]

\* the reply of the model: the call raises, the text is not JSON, or the
\* text is JSON
CallFailed == [kind |-> "call_failed", recommended_member |-> 0]
Unparseable == [kind |-> "unparseable", recommended_member |-> 0]
ReplyWithoutMember == [kind |-> "no_member", recommended_member |-> 0]
ReplyNotAnObject == [kind |-> "not_an_object", recommended_member |-> 0]
Reply(n) == [kind |-> "object", recommended_member |-> n]

\* bedrock_recommendation whose fallback counts members from 0
bedrock_recommendation_zero_based(reply) ==
  CASE reply.kind \in {"call_failed", "unparseable"} -> Recommendation(0)
    [] reply.kind = "no_member" -> RecommendationWithoutMember
    [] reply.kind = "not_an_object" -> NotAnObject
    [] OTHER -> Recommendation(reply.recommended_member)

\* except Exception: return {'recommended_member': 1, ...}
bedrock_recommendation(reply) ==
  CASE reply.kind \in {"call_failed", "unparseable"} -> Recommendation(1)
    [] reply.kind = "no_member" -> RecommendationWithoutMember
    [] reply.kind = "not_an_object" -> NotAnObject
    [] OTHER -> Recommendation(reply.recommended_member)

\* list[index] of Python: a negative index counts from the end; the result
\* is the position from 1, or 0 for IndexError
PythonIndex(length, index) ==
  IF 0 <= index /\ index < length THEN index + 1
  ELSE IF index < 0 /\ 0 - length <= index THEN length + index + 1
  ELSE 0

\* items of table.put_item
AlertItem(alert_type, urgency) ==
  [item |-> "alert", alert_type |-> alert_type, urgency |-> urgency,
   status |-> "active", assigned |-> FALSE, assigned_to |-> ""]

UnassignedTaskItem(alert_type, urgency) ==
  [item |-> "task", alert_type |-> alert_type, urgency |-> urgency,
   status |-> "pending", assigned |-> FALSE, assigned_to |-> ""]

\* create_task_in_db(task_data, assigned_member)
TaskItem(alert_type, urgency, member_id) ==
  [item |-> "task", alert_type |-> alert_type, urgency |-> urgency,
   status |-> "pending", assigned |-> TRUE, assigned_to |-> member_id]

Response(statusCode, skipped) == [statusCode |-> statusCode, skipped |-> skipped]

\* the skills the handler requires for an alert type
RequiredSkillsFor(alert_type) ==
  LET lowered == Lower(alert_type)
  IN  IF Contains(lowered, "memory") \/ Contains(lowered, "medication")
      THEN << "Medical/Healthcare" >>
      ELSE IF Contains(lowered, "emotional")
      THEN << "Emotional Support" >>
      ELSE << >>

\* lambda_handler(event, context), from the event to the response
lambda_handler ==
  LET alert_type == event.alert_type
      urgency == event.urgency
      task_data == [required_skills |-> RequiredSkillsFor(alert_type),
                    urgency |-> urgency, elder_zipcode |-> ElderZip]
      scored == multi_agent_scoring(task_data, members)
      recommendation == bedrock_recommendation(llm_reply)
      member_index == (IF recommendation.has_member
                       THEN recommendation.recommended_member ELSE 1) - 1
      selected == PythonIndex(Len(scored), member_index)
  IN  /\ op = "init"
      /\ op' = "lambda_handler"
      /\ IF check_duplicate_alert(alert_type, urgency, existing_alerts)
         THEN /\ handler_response' = Response(200, TRUE)
              /\ UNCHANGED << task, scored_members, writes >>
         ELSE IF Len(members) = 0
         THEN /\ task' = task_data
              /\ writes' = << AlertItem(alert_type, urgency),
                              UnassignedTaskItem(alert_type, urgency) >>
              /\ handler_response' = Response(200, FALSE)
              /\ UNCHANGED scored_members
         ELSE IF ~recommendation.is_object \/ selected = 0
         THEN \* AttributeError or IndexError, caught by the outer except
              /\ task' = task_data
              /\ scored_members' = scored
              /\ writes' = << AlertItem(alert_type, urgency) >>
              /\ handler_response' = Response(500, FALSE)
         ELSE /\ task' = task_data
              /\ scored_members' = scored
              /\ writes' = << AlertItem(alert_type, urgency),
                              TaskItem(alert_type, urgency,
                                       scored[selected].member.member_id) >>
              /\ handler_response' = Response(200, FALSE)
      /\ UNCHANGED << protocol_type, current_step_number, responses, next_step, returned,
                      condition, evaluated, members, zip_hash, active_tasks,
                      outcome_vars, sessions_vars, event, existing_alerts, llm_reply >>

AlertTypes == {"healthConcern", "memoryIssue", "emotionalDistress"}

\* the family's alerts in the table when the event arrives
ExistingAlertLists ==
  { << >>,
    << StoredAlert("memoryIssue", "urgent", 5) >>,
    << StoredAlert("memoryIssue", "low", 5) >>,
    << StoredAlert("memoryIssue", "urgent", 45) >>,
    << StoredAlert("healthConcern", "medium", 29) >>,
    << StoredAlert("emotionalDistress", "low", 10),
       StoredAlert("emotionalDistress", "high", 20) >> }

\* the replies of the model: a member number from 0 to past the family
LlmReplies ==
  {CallFailed, Unparseable, ReplyWithoutMember, ReplyNotAnObject}
    \cup { Reply(n) : n \in 0..(MaxMembers + 1) }

HandlerProfiles ==
  { Profile(VStr("10001"), << "Medical/Healthcare", "Emotional Support" >>, "flexible", Items(0)),
    Profile(VStr("94105"), << "Medical/Healthcare" >>, "weekends", Items(1)),
    Profile(VStr("10001"), << >>, "limited", Items(3)) }

InitHandler ==
  \E n \in 0..MaxMembers :
    \E profiles \in [1..n -> HandlerProfiles] :
      \E alert_type \in AlertTypes :
        \E urgency \in Urgencies :
          \E alerts \in ExistingAlertLists :
            \E reply \in LlmReplies :
              /\ protocol_type = "fall"
              /\ current_step_number = 1
              /\ responses = EmptyDict
              /\ op = "init"
              /\ next_step = NoResult
              /\ returned = NoResult
              /\ condition = ""
              /\ evaluated = NotEvaluated
              /\ task = NoTask
              /\ members = [i \in 1..n |->
                              [member_id |-> MemberId(i),
                               zipcode |-> profiles[i].zipcode,
                               skills |-> profiles[i].skills,
                               availability |-> profiles[i].availability]]
              /\ zip_hash = [k \in { z \o ElderZip : z \in ZipCodes } |->
                               IF k = ElderZip \o ElderZip THEN 9 ELSE 250]
              /\ active_tasks = [m \in { MemberId(i) : i \in 1..n } |->
                                   profiles[CHOOSE i \in 1..n : MemberId(i) = m].response]
              /\ scored_members = << >>
              /\ capture_request = [template_type |-> "", outcome |-> "", notes |-> "",
                                    now |-> 0]
              /\ captured = [called |-> FALSE, success |-> FALSE, errors |-> << >>,
                             outcome |-> << >>]
              /\ follow_up_tasks = [called |-> FALSE, tasks |-> << >>]
              /\ sessions = [a \in {} |-> 0]
              /\ alone = [a \in {} |-> 0]
              /\ operated = ""
              /\ event = [alert_type |-> alert_type, urgency |-> urgency]
              /\ existing_alerts = alerts
              /\ llm_reply = reply
              /\ writes = << >>
              /\ handler_response = Response(0, FALSE)

LambdaHandler == lambda_handler

NextHandler == LambdaHandler

SpecHandler == InitHandler /\ [][NextHandler]_vars

Handled == op = "lambda_handler"

\* the first candidates of the composite ranking of the family
TopCandidates ==
  { scored_members[i].member.member_id :
      i \in 1..(IF Len(scored_members) < 3 THEN Len(scored_members) ELSE 3) }

\* C25: the top-ranked candidate by composite is the default assignee: when
\* the call of the LLM re-ranker fails or its reply cannot be parsed, the
\* handler assigns the task to the first candidate of the composite-sorted
\* ranking.
C25_FallbackAssignsTopCandidate ==
  (/\ Handled
   /\ ~handler_response.skipped
   /\ llm_reply \in {CallFailed, Unparseable}
   /\ Len(members) > 0) =>
    /\ handler_response.statusCode = 200
    /\ scored_members = multi_agent_scoring(task, members)
    /\ Len(writes) = 2
    /\ writes[2] = TaskItem(event.alert_type, event.urgency,
                            scored_members[1].member.member_id)

\* the re-ranker call failed and the ranking put another member than the
\* first of the family on top
C25_Witness ==
  /\ Handled
  /\ llm_reply = CallFailed
  /\ Len(members) = 3
  /\ Len(writes) = 2
  /\ writes[2].assigned_to = scored_members[1].member.member_id
  /\ writes[2].assigned_to # members[1].member_id

\* C28: when the family has a stored alert of the same alert_type from the
\* last 30 minutes whose urgency rank (urgent 3, high 2, medium 1, low 0) is
\* at least the rank of the new event, the handler reports the event as
\* skipped and writes no alert and no task; otherwise the event is processed.
C28_DuplicateAlertIsSuppressed ==
  Handled =>
    IF \E i \in 1..Len(existing_alerts) :
         /\ existing_alerts[i].alert_type = event.alert_type
         /\ existing_alerts[i].age < 30
         /\ PriorityRank(existing_alerts[i].urgency) >= PriorityRank(event.urgency)
    THEN handler_response = Response(200, TRUE) /\ writes = << >>
    ELSE ~handler_response.skipped /\ Len(writes) >= 1 /\ writes[1].item = "alert"

\* C29: for every non-suppressed alert event of a family with at least one
\* member, whatever member index the re-ranker returns, the handler stores
\* the alert first and then creates exactly one task, assigned to one of the
\* first three candidates of the composite ranking; with no family members
\* it stores the alert and creates exactly one unassigned pending task.
C29_ExactlyOneTaskAmongTopThree ==
  (Handled /\ ~handler_response.skipped) =>
    /\ Len(writes) = 2
    /\ writes[1] = AlertItem(event.alert_type, event.urgency)
    /\ writes[2].item = "task"
    /\ writes[2].status = "pending"
    /\ IF Len(members) = 0
       THEN ~writes[2].assigned
       ELSE writes[2].assigned /\ writes[2].assigned_to \in TopCandidates

-----------------------------------------------------------------------------
(* The course of a session (specification Spec).                            *)

\* the numbers of the steps of a template
StepNumbers(pt) ==
  { PROTOCOL_TEMPLATES[pt].steps[i].step_number : i \in 1..Len(PROTOCOL_TEMPLATES[pt].steps) }

\* C26: in every reachable state of a session of any of the four scenarios,
\* after any sequence of record_response and proceed_to_next_step calls,
\* the current step number is the number of a step of the session's
\* template (1..4), so that get_current_step does not fail.
C26_CurrentStepIsDefined ==
  /\ \A pt \in ProtocolTypes : StepNumbers(pt) = 1..4
  /\ current_step_number \in StepNumbers(protocol_type)
  /\ find_step_by_number(protocol_type, current_step_number) # NoStep

\* a session that went through all steps and completed at the last one
C26_Witness ==
  /\ op = "proceed_to_next_step"
  /\ current_step_number = 4
  /\ returned = Complete
  /\ responses # EmptyDict

\* C27: every session runs to completion: each call of proceed_to_next_step
\* returns the step after the current one (and moves there), "emergency" or
\* "complete"; it never moves otherwise, so at most three calls return a
\* step; "emergency" is only returned at steps 1 and 2 and "complete" only
\* at step 4.
C27_SessionRunsToCompletion ==
  [][op' = "proceed_to_next_step" =>
       /\ \/ returned' = StepNumber(current_step_number + 1)
          \/ returned' = Emergency
          \/ returned' = Complete
       /\ current_step_number' =
            (IF returned'.kind = "step" THEN current_step_number + 1
             ELSE current_step_number)
       /\ current_step_number' <= 4
       /\ (returned' = Emergency => (current_step_number = 1 \/ current_step_number = 2))
       /\ (returned' = Complete => current_step_number = 4)]_vars

\* C30: proceed_to_next_step is not gated by validation: a session without
\* any recorded response advances 1, 2, 3, 4 and then returns "complete",
\* never "emergency" and never raising, although validate_current_step
\* reports missing required questions at every step.
C30_EmptySessionAdvancesToComplete ==
  /\ [](responses = EmptyDict =>
          /\ ~validate_current_step(protocol_type, current_step_number, responses).valid
          /\ Len(validate_current_step(protocol_type, current_step_number,
                                       responses).missing) > 0)
  /\ [][(op' = "proceed_to_next_step" /\ responses = EmptyDict) =>
          /\ returned' = (IF current_step_number < 4
                          THEN StepNumber(current_step_number + 1) ELSE Complete)
          /\ current_step_number' =
               (IF current_step_number < 4 THEN current_step_number + 1 ELSE 4)]_vars

\* the session without responses has completed
C30_Witness ==
  /\ responses = EmptyDict
  /\ op = "proceed_to_next_step"
  /\ returned = Complete
  /\ current_step_number = 4

====
